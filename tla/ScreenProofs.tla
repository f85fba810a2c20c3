---------------------------- MODULE ScreenProofs -----------------------------
(***************************************************************************)
(* Everything on the screen has its place, whatever the size of the        *)
(* screen, whatever the theme asks for and whatever was opened and closed. *)
(* First the arithmetic of shell.rs and layout.rs, one lemma for each of   *)
(* its functions; then the invariant, which says what the screen hands to  *)
(* them: sizes that are sizes, a strip with an active card, and as many    *)
(* tiles as the zone between the bars has room for. Then what is painted   *)
(* at a point and what a press there acts on: the display list is cut into *)
(* its six parts, and each is shown to be silent where another answers.    *)
(*                                                                         *)
(* Then the words on it: how text.rs cuts a name to its box, and what the  *)
(* cache of images keeps from frame to frame.                              *)
(***************************************************************************)
EXTENDS Screen, TextCache, CoreProofs, FiniteSetTheorems, TLAPS

\* A rectangle of this model; one with an extent that may be none.
IsRect(r) == /\ r = Rect(r.x, r.y, r.w, r.h)
             /\ r.x \in Int /\ r.y \in Int /\ r.w \in Nat /\ r.h \in Nat

\* Where something is: whole numbers, of any size.
AnyRect == [x : Int, y : Int, w : Int, h : Int]

LEMMA RectIsPlain ==
  ASSUME NEW x \in Int, NEW y \in Int, NEW w \in Int, NEW h \in Int
  PROVE  Rect(x, y, w, h) \in AnyRect
BY DEF Rect, AnyRect

LEMMA RectIsAny == ASSUME NEW r, IsRect(r) PROVE r \in AnyRect
BY RectIsPlain DEF IsRect

LEMMA RectFacts ==
  ASSUME NEW x, NEW y, NEW w, NEW h
  PROVE  /\ Rect(x, y, w, h).x = x /\ Rect(x, y, w, h).y = y
         /\ Rect(x, y, w, h).w = w /\ Rect(x, y, w, h).h = h
BY DEF Rect

----------------------------------------------------------------------------
(* Zones                                                                   *)

\* A share of a budget, in proportion, leaves something to the other.
LEMMA ShareIsPart ==
  ASSUME NEW budget \in Nat, NEW top \in Nat \ {0}, NEW bottom \in Nat \ {0}
  PROVE  /\ (top * budget) \div (top + bottom) \in Nat
         /\ budget > 0 => (top * budget) \div (top + bottom) < budget
<1> DEFINE t == top * budget
<1> DEFINE b == top + bottom
<1> DEFINE q == t \div b
<1>1. t \in Nat /\ b \in Nat \ {0}
  OBVIOUS
<1>2. b * budget = t + bottom * budget /\ bottom * budget \in Nat
  OBVIOUS
<1>3. budget > 0 => bottom * budget > 0
  OBVIOUS
<1> HIDE DEF t, b
<1>4. q \in Nat /\ b * q \in Nat /\ b * q <= t
  BY <1>1, Division
<1> HIDE DEF q
<1>5. ASSUME budget > 0, budget <= q PROVE FALSE
  <2>1. b * budget <= b * q /\ b * budget \in Nat
    BY <1>1, <1>4, <1>5, ProductGrows
  <2> QED BY <1>1, <1>2, <1>3, <1>4, <1>5, <2>1
<1>6. q \in Nat /\ (budget > 0 => q < budget)
  BY <1>4, <1>5
<1> QED BY <1>6 DEF q, t, b

\* zones: the bars share what they may take, and the rest is the apps'.
LEMMA ZonesFit ==
  ASSUME NEW screen, IsRect(screen), NEW bars, bars.top \in Int, bars.bottom \in Int
  PROVE  LET z == Zones(screen, bars)
         IN  /\ IsRect(z.top_bar) /\ IsRect(z.apps) /\ IsRect(z.bottom_bar)
             /\ Covers(z, screen)
             /\ screen.h >= 4 => /\ z.top_bar.h + z.bottom_bar.h <= Quot(screen.h, 2)
                                 /\ z.top_bar.h > 0 /\ z.bottom_bar.h > 0
             /\ \A zone \in {z.top_bar, z.apps, z.bottom_bar} : zone.x = screen.x /\ zone.w = screen.w
<1> DEFINE top == Most(bars.top, MinTouchTarget)
<1> DEFINE bottom == Most(bars.bottom, MinTouchTarget)
<1> DEFINE budget == Quot(screen.h, 2)
<1> DEFINE high == ZoneHeights(screen, bars)
<1>1. top \in Nat \ {0} /\ bottom \in Nat \ {0}
  BY DEF Most, MinTouchTarget
<1>2. budget \in Nat /\ 2 * budget <= screen.h /\ screen.h <= 2 * budget + 1 /\ screen.h \in Nat
  BY DEF IsRect, Quot
<1> HIDE DEF top, bottom, budget
<1> DEFINE part == (top * budget) \div (top + bottom)
<1> DEFINE share == Most(Quot(top * budget, top + bottom), 1)
<1>3. part \in Nat /\ (budget > 0 => part < budget)
  BY <1>1, <1>2, ShareIsPart
<1>4. share = Most(part, 1)
  <2>1. top * budget >= 0
    BY <1>1, <1>2
  <2> QED BY <2>1 DEF Quot
<1> HIDE DEF part, share
<1>5. high = IF top + bottom <= budget THEN <<top, bottom>>
             ELSE IF budget > 0 THEN <<share, Most(budget - share, 1)>> ELSE <<0, 0>>
  BY DEF ZoneHeights, top, bottom, budget, share
<1>6. /\ high[1] \in Nat /\ high[2] \in Nat /\ high[1] + high[2] <= screen.h
      /\ screen.h >= 4 => high[1] + high[2] <= budget /\ high[1] > 0 /\ high[2] > 0
  <2>1. CASE top + bottom <= budget
    BY <1>1, <1>2, <1>5, <2>1
  <2>2. CASE ~(top + bottom <= budget) /\ budget > 0
    <3>1. share \in Nat /\ share >= 1 /\ (budget > 1 => share < budget) /\ (budget = 1 => share = 1)
      BY <1>2, <1>3, <1>4, <2>2 DEF Most
    <3>2. high[1] = share /\ high[2] = Most(budget - share, 1)
      BY <1>5, <2>2
    <3> QED BY <1>2, <2>2, <3>1, <3>2 DEF Most
  <2>3. CASE ~(top + bottom <= budget) /\ budget = 0
    BY <1>2, <1>5, <2>3
  <2> QED BY <1>2, <2>1, <2>2, <2>3
<1> HIDE DEF high
<1>7. Most(screen.h - high[1] - high[2], 0) = screen.h - high[1] - high[2]
  BY <1>2, <1>6 DEF Most
<1>8. Zones(screen, bars) =
        [top_bar    |-> Rect(screen.x, screen.y, screen.w, high[1]),
         apps       |-> Rect(screen.x, screen.y + high[1], screen.w,
                             screen.h - high[1] - high[2]),
         bottom_bar |-> Rect(screen.x, screen.y + screen.h - high[2], screen.w, high[2])]
  <2>1. screen.y + high[1] + (screen.h - high[1] - high[2]) = screen.y + screen.h - high[2]
    BY <1>2, <1>6 DEF IsRect
  <2> QED BY <1>7, <2>1 DEF Zones, high
<1> QED BY <1>2, <1>6, <1>8 DEF IsRect, Covers, Rect, Bottom, budget

----------------------------------------------------------------------------
(* The bars                                                                *)

\* top_bar_layout: menu, search, clock and status from left to right, each
\* where it leaves a gap to the next one that is there.
LEMMA TopBarFits ==
  ASSUME NEW bar, IsRect(bar)
  PROVE  LET l     == TopBarLayout(bar)
             parts == UNION {l[item] : item \in DOMAIN l}
         IN  /\ DOMAIN l = {"menu", "search", "clock", "status"}
             /\ \A r \in parts : Within(r, bar) /\ r \in AnyRect
             /\ \A r, q \in parts : r # q => Right(r) + BarGap <= q.x \/ Right(q) + BarGap <= r.x
             /\ \A item \in DOMAIN l : IsFiniteSet(l[item]) /\ \A r, q \in l[item] : r = q
             /\ \A a, b \in DOMAIN l : a # b =>
                  \A r \in l[a], q \in l[b] : Right(r) + BarGap <= q.x \/ Right(q) + BarGap <= r.x
<1> DEFINE h == Clamp(bar.h, 1, MinTouchTarget)
<1> DEFINE chip(x, w) == Rect(x, bar.y + Quot(bar.h - h, 2), w, h)
<1> DEFINE left == bar.x + BarMargin
<1> DEFINE right == Right(bar) - BarMargin
<1> DEFINE menu == IF right > left THEN {chip(left, Least(MenuW, right - left))} ELSE {}
<1> DEFINE cursor == left + Least(MenuW, right - left)
<1> DEFINE status == IF right - StatusW >= cursor + BarGap
                     THEN {chip(right - StatusW, StatusW)} ELSE {}
<1> DEFINE edge == IF status = {} THEN right ELSE right - StatusW
<1> DEFINE clockX == bar.x + Quot(bar.w - ClockW, 2)
<1> DEFINE middle == IF clockX >= cursor + BarGap /\ clockX + ClockW <= edge - BarGap
                     THEN {chip(clockX, ClockW)} ELSE {}
<1> DEFINE limit == IF middle = {} THEN edge ELSE clockX
<1> DEFINE search == IF cursor + BarGap + h <= limit - BarGap
                     THEN {chip(cursor + BarGap, h)} ELSE {}
<1> DEFINE l == TopBarLayout(bar)
<1>1. l = IF bar.w <= 0 \/ bar.h <= 0 \/ menu = {}
          THEN [menu |-> {}, search |-> {}, clock |-> {}, status |-> {}]
          ELSE [menu |-> menu, search |-> search, clock |-> middle, status |-> status]
  BY DEF TopBarLayout
<1>2. CASE bar.w <= 0 \/ bar.h <= 0 \/ menu = {}
  <2>1. l = [menu |-> {}, search |-> {}, clock |-> {}, status |-> {}]
    BY <1>1, <1>2
  <2> HIDE DEF l
  <2>2. DOMAIN l = {"menu", "search", "clock", "status"} /\ \A item \in DOMAIN l : l[item] = {}
    BY <2>1
  <2> QED BY <2>2, FS_EmptySet DEF l
<1>3. CASE ~(bar.w <= 0 \/ bar.h <= 0 \/ menu = {})
  <2>1. /\ h \in 1..bar.h /\ left \in Int /\ right \in Int /\ clockX \in Int /\ left < right
        /\ bar.x <= left /\ right <= Right(bar)
    BY <1>3 DEF IsRect, Clamp, Least, Most, MinTouchTarget, BarMargin, Right, ClockW, Quot
  <2>2. cursor \in Int /\ left <= cursor /\ cursor <= right
    BY <2>1 DEF Least, MenuW, MinTouchTarget
  <2>3. bar.y + Quot(bar.h - h, 2) \in Int /\ bar.y <= bar.y + Quot(bar.h - h, 2)
        /\ bar.y + Quot(bar.h - h, 2) + h <= Bottom(bar)
    BY <2>1 DEF Quot, IsRect, Bottom
  <2> DEFINE top == bar.y + Quot(bar.h - h, 2)
  <2> HIDE DEF l, h, left, right, clockX, cursor, top
  <2>0. BarGap = 12
    BY DEF BarGap
  <2>4. \A r \in menu : r.x = left /\ Right(r) = cursor /\ r.y = top /\ r.h = h
    BY <2>1, <2>2 DEF Right, Rect, cursor, top
  <2>5. /\ edge \in Int /\ edge <= right
        /\ \A r \in status : /\ r.x = edge /\ Right(r) = right /\ r.y = top /\ r.h = h
                             /\ cursor + BarGap <= edge
    BY <2>1, <2>2 DEF Right, Rect, StatusW, top
  <2> HIDE DEF menu, status, edge
  <2>6. /\ limit \in Int /\ limit <= edge
        /\ \A r \in middle : /\ r.x = limit /\ Right(r) \in Int /\ Right(r) <= edge - BarGap
                            /\ r.y = top /\ r.h = h
                            /\ cursor + BarGap <= limit
    BY <2>1, <2>2, <2>5 DEF Right, Rect, ClockW, BarGap, top
  <2> HIDE DEF middle, limit
  <2>7. \A r \in search : /\ r.x = cursor + BarGap /\ Right(r) \in Int /\ Right(r) <= limit - BarGap
                          /\ r.y = top /\ r.h = h
    BY <2>1, <2>2, <2>6, <2>0 DEF Right, Rect, top
  <2> HIDE DEF search
  <2>8. l = [menu |-> menu, search |-> search, clock |-> middle, status |-> status]
    BY <1>1, <1>3
  <2>9. /\ DOMAIN l = {"menu", "search", "clock", "status"}
        /\ UNION {l[item] : item \in DOMAIN l} = menu \cup search \cup middle \cup status
    BY <2>8
  <2>10. /\ \A r, q \in menu : r = q
         /\ \A r, q \in search : r = q
         /\ \A r, q \in middle : r = q
         /\ \A r, q \in status : r = q
    BY DEF menu, search, middle, status
  <2>11. \A r \in menu \cup search \cup middle \cup status : Within(r, bar)
    <3>1. \A r : /\ left <= r.x /\ Right(r) <= right /\ r.x \in Int /\ Right(r) \in Int
                 /\ r.y = top /\ r.h = h
                 => Within(r, bar)
      BY <2>1, <2>3 DEF Within, Bottom, top, IsRect, Right
    <3>2. \A r \in menu \cup status : Within(r, bar)
      BY <2>1, <2>2, <2>4, <2>5, <2>0, <3>1
    <3>3. \A r \in middle \cup search : Within(r, bar)
      BY <2>1, <2>2, <2>5, <2>6, <2>7, <2>0, <3>1
    <3> QED BY <3>2, <3>3
  <2>12. \A r, q \in menu \cup search \cup middle \cup status :
           r # q => Right(r) + BarGap <= q.x \/ Right(q) + BarGap <= r.x
    <3>1. \A r \in menu : /\ \A q \in search : Right(r) + BarGap <= q.x
                          /\ \A q \in middle : Right(r) + BarGap <= q.x
                          /\ \A q \in status : Right(r) + BarGap <= q.x
      BY <2>2, <2>4, <2>5, <2>6, <2>7, <2>0
    <3>2. \A r \in search : /\ \A q \in middle : Right(r) + BarGap <= q.x
                            /\ \A q \in status : Right(r) + BarGap <= q.x
      BY <2>5, <2>6, <2>7, <2>0
    <3>3. \A r \in middle, q \in status : Right(r) + BarGap <= q.x
      BY <2>5, <2>6, <2>0
    <3> QED BY <2>10, <3>1, <3>2, <3>3
  <2>13. \A a, b \in DOMAIN l : a # b =>
           \A r \in l[a], q \in l[b] : Right(r) + BarGap <= q.x \/ Right(q) + BarGap <= r.x
    <3>1. \A r \in menu : /\ \A q \in search : Right(r) + BarGap <= q.x
                          /\ \A q \in middle : Right(r) + BarGap <= q.x
                          /\ \A q \in status : Right(r) + BarGap <= q.x
      BY <2>2, <2>4, <2>5, <2>6, <2>7, <2>0
    <3>2. \A r \in search : /\ \A q \in middle : Right(r) + BarGap <= q.x
                            /\ \A q \in status : Right(r) + BarGap <= q.x
      BY <2>5, <2>6, <2>7, <2>0
    <3>3. \A r \in middle, q \in status : Right(r) + BarGap <= q.x
      BY <2>5, <2>6, <2>0
    <3>4. l["menu"] = menu /\ l["search"] = search /\ l["clock"] = middle /\ l["status"] = status
      BY <2>8
    <3> QED BY <2>9, <3>1, <3>2, <3>3, <3>4
  <2>14. \A r \in menu \cup search \cup middle \cup status : r \in AnyRect
    <3>1. left \in Int /\ Least(MenuW, right - left) \in Int /\ top \in Int /\ h \in Int
      BY <2>1, <2>3 DEF Least, MenuW, MinTouchTarget, top
    <3> QED BY <2>1, <2>2, <3>1, RectIsPlain DEF menu, search, middle, status, top, StatusW, ClockW, BarGap
  <2>15. \A item \in DOMAIN l : IsFiniteSet(l[item]) /\ \A r, q \in l[item] : r = q
    <3>1. /\ IsFiniteSet(menu) /\ IsFiniteSet(search) /\ IsFiniteSet(middle) /\ IsFiniteSet(status)
      BY FS_EmptySet, FS_Singleton DEF menu, search, middle, status
    <3> QED BY <2>8, <2>9, <2>10, <3>1
  <2> QED BY <2>9, <2>11, <2>12, <2>13, <2>14, <2>15 DEF l
<1> QED BY <1>2, <1>3

\* bottom_bar_layout: a chip for each window from the left, the last one no
\* further than the margin.
LEMMA BottomBarFits ==
  ASSUME NEW bar, IsRect(bar), NEW count \in Nat
  PROVE  LET chips == BottomBarLayout(bar, count)
         IN  /\ Len(chips) \in Nat /\ DOMAIN chips = 1..Len(chips) /\ Len(chips) <= count
             /\ \A i \in DOMAIN chips :
                  /\ Within(chips[i], bar) /\ chips[i] \in AnyRect
                  /\ i > 1 => chips[i].x >= Right(chips[i - 1]) + ChipGap
                  /\ \A j \in DOMAIN chips : i # j => Apart(chips[i], chips[j])
<1> DEFINE h == Least(ChipH, bar.h)
<1> DEFINE room == (bar.w - 2 * BarMargin + ChipGap) \div (ChipW + ChipGap)
<1> DEFINE n == Least(count, Most(room, 0))
<1> DEFINE top == bar.y + Quot(bar.h - h, 2)
<1> DEFINE chips == BottomBarLayout(bar, count)
<1>1. CASE bar.w <= 0 \/ bar.h <= 0
  <2>1. chips = << >>
    BY <1>1 DEF BottomBarLayout
  <2> QED BY <2>1
<1>2. CASE ~(bar.w <= 0 \/ bar.h <= 0)
  <2>1. chips = [i \in 1..n |-> Rect(bar.x + BarMargin + (i - 1) * (ChipW + ChipGap), top, ChipW, h)]
    BY <1>2 DEF BottomBarLayout
  <2>2. n \in Nat /\ n <= count /\ (n > 0 => n * 188 + 16 <= bar.w)
    BY DEF IsRect, Least, Most, BarMargin, ChipW, ChipGap
  <2>3. h \in Nat /\ h <= bar.h
    BY DEF IsRect, Least, ChipH
  <2>4. top \in Int /\ bar.y <= top /\ top + h <= Bottom(bar)
    BY <2>3 DEF Quot, IsRect, Bottom
  <2> HIDE DEF chips, n, top, h
  <2>5. Len(chips) = n /\ DOMAIN chips = 1..n
    BY <2>1, <2>2
  <2>6. \A i \in 1..n : /\ chips[i].x = bar.x + 12 + (i - 1) * 188
                        /\ Right(chips[i]) = bar.x + 192 + (i - 1) * 188
                        /\ chips[i].y = top /\ Bottom(chips[i]) = top + h
    BY <2>1, <2>2 DEF IsRect, Rect, Right, Bottom, BarMargin, ChipW, ChipGap
  <2>7. ASSUME NEW i \in 1..n
        PROVE  /\ Within(chips[i], bar) /\ chips[i] \in AnyRect
               /\ i > 1 => chips[i].x >= Right(chips[i - 1]) + ChipGap
               /\ \A j \in 1..n : i # j => Apart(chips[i], chips[j])
    <3>0. chips[i] \in AnyRect
      <4>1. bar.x + BarMargin + (i - 1) * (ChipW + ChipGap) \in Int /\ ChipW \in Int
        BY <2>2 DEF IsRect, BarMargin, ChipW, ChipGap
      <4>2. top \in Int /\ h \in Int
        BY <2>3, <2>4
      <4> QED BY <2>1, <4>1, <4>2, RectIsPlain
    <3>1. Within(chips[i], bar)
      BY <2>2, <2>4, <2>6 DEF Within, IsRect, Right
    <3>3. ASSUME NEW j \in 1..n, i # j PROVE Apart(chips[i], chips[j])
      BY <2>2, <2>6, <3>3 DEF Apart, IsRect
    <3>2. ASSUME i > 1 PROVE chips[i].x >= Right(chips[i - 1]) + ChipGap
      <4>1. i - 1 \in 1..n
        BY <2>2, <3>2
      <4>2. chips[i].x = bar.x + 12 + (i - 1) * 188 /\ Right(chips[i - 1]) = bar.x + 192 + (i - 1 - 1) * 188
        BY <2>6, <4>1
      <4> QED BY <4>2, <2>2 DEF IsRect, ChipGap
    <3> QED BY <3>0, <3>1, <3>2, <3>3
  <2> QED BY <2>2, <2>5, <2>7 DEF chips
<1> QED BY <1>1, <1>2

----------------------------------------------------------------------------
(* The card strip                                                          *)

\* Metrics after Metrics::sanitised, as far as they matter here.
MetricsOK(m) ==
  /\ m.top_bar \in Nat /\ m.bottom_bar \in Nat /\ m.card_header \in Nat
  /\ m.card_width \in Nat \ {0} /\ m.tile_unit \in Nat \ {0}
  /\ m.card_gap \in Nat /\ m.card_pad \in Nat /\ m.tile_gap \in Nat
  /\ m.inner_gap \in Nat /\ m.outer_gap \in Nat /\ m.focus_width \in Nat \ {0}

\* strip_offset: how far the strip is slid, p * i being where column i of it
\* starts.
LEMMA OffsetIs ==
  ASSUME NEW zone, IsRect(zone), NEW m, MetricsOK(m), NEW count \in Nat, NEW active \in Nat
  PROVE  LET width == CardWidth(zone, m)
             p     == width + m.card_gap
         IN  /\ width \in Nat /\ p \in Nat /\ p * count \in Nat /\ p * active \in Nat
             /\ StripOffset(zone, m, count, active) =
                  IF p * count + width <= zone.w THEN Quot(-(zone.w - (p * count + width)), 2)
                  ELSE Clamp(p * active + Quot(width, 2) - Quot(zone.w, 2), 0,
                             p * count + width - zone.w)
<1> DEFINE width == CardWidth(zone, m)
<1> DEFINE p == width + m.card_gap
<1> DEFINE strip_width == StripWidth(zone, m, count)
<1>1. width \in Nat /\ m.card_gap \in Nat /\ zone.w \in Nat
  BY DEF CardWidth, Least, MetricsOK, IsRect
<1>2. p \in Nat /\ p * active \in Nat /\ p * count \in Nat
  BY <1>1
<1>3. strip_width = p * count + width
  <2>1. strip_width = (count + 1) * p - m.card_gap /\ p = width + m.card_gap
    BY DEF StripWidth
  <2> HIDE DEF p, width, strip_width
  <2>2. (count + 1) * p = p * count + p
    BY <1>2
  <2> QED BY <1>1, <1>2, <2>1, <2>2
<1>4. active * p = p * active
  BY <1>2
<1>5. StripOffset(zone, m, count, active) =
        IF strip_width <= zone.w THEN Quot(-(zone.w - strip_width), 2)
        ELSE Clamp(active * p + Quot(width, 2) - Quot(zone.w, 2), 0, strip_width - zone.w)
  BY DEF StripOffset
<1> HIDE DEF width, p, strip_width
<1>6. StripOffset(zone, m, count, active) =
        IF p * count + width <= zone.w THEN Quot(-(zone.w - (p * count + width)), 2)
        ELSE Clamp(p * active + Quot(width, 2) - Quot(zone.w, 2), 0, p * count + width - zone.w)
  BY <1>1, <1>2, <1>3, <1>4, <1>5
<1> QED BY <1>1, <1>2, <1>6 DEF width, p

\* Between two neighbours it differs by no more than a column.
LEMMA OffsetMoves ==
  ASSUME NEW zone, IsRect(zone), NEW m, MetricsOK(m), NEW count \in Nat, NEW a \in Nat
  PROVE  LET offset(i) == StripOffset(zone, m, count, i)
         IN  /\ offset(a) \in Int /\ offset(a + 1) \in Int
             /\ AbsDiff(offset(a + 1), offset(a)) <= CardWidth(zone, m) + m.card_gap
             /\ AbsDiff(offset(a), offset(a + 1)) <= CardWidth(zone, m) + m.card_gap
<1> DEFINE width == CardWidth(zone, m)
<1> DEFINE p == width + m.card_gap
<1> DEFINE low == StripOffset(zone, m, count, a)
<1> DEFINE high == StripOffset(zone, m, count, a + 1)
<1> DEFINE N == p * count
<1> DEFINE A == p * a
<1>1. /\ width \in Nat /\ p \in Nat /\ N \in Nat /\ A \in Nat
      /\ low = IF N + width <= zone.w THEN Quot(-(zone.w - (N + width)), 2)
               ELSE Clamp(A + Quot(width, 2) - Quot(zone.w, 2), 0, N + width - zone.w)
  BY OffsetIs
<1>2. high = IF N + width <= zone.w THEN Quot(-(zone.w - (N + width)), 2)
             ELSE Clamp(p * (a + 1) + Quot(width, 2) - Quot(zone.w, 2), 0, N + width - zone.w)
  BY OffsetIs
<1> HIDE DEF width, p, low, high
<1>3. p * (a + 1) = A + p
  BY <1>1
<1> HIDE DEF N, A
<1>4. zone.w \in Nat
  BY DEF IsRect
<1>5. /\ low \in Int /\ high \in Int
      /\ AbsDiff(high, low) <= p /\ AbsDiff(low, high) <= p
  BY <1>1, <1>2, <1>3, <1>4 DEF AbsDiff, Quot, Clamp, Least, Most
<1> QED BY <1>5 DEF low, high, p, width

\* card_columns: centred as a whole, or the active card in the middle, or
\* stopped at an end.  Here p * i is where column i starts on the strip.
LEMMA StripFits ==
  ASSUME NEW zone, IsRect(zone), IsValid(zone), NEW m, MetricsOK(m),
         NEW count \in Nat, NEW active \in 0..(count - 1)
  PROVE  LET x(i) == ColumnX(zone, m, count, active, i)
             width == CardWidth(zone, m)
         IN  /\ width \in 1..zone.w
             /\ \A i \in 0..count : x(i) \in Int
             /\ zone.x <= x(active) /\ x(active) + width <= Right(zone)
             /\ x(0) > zone.x => x(count) + width <= Right(zone)
             /\ x(count) + width < Right(zone) => x(0) >= zone.x
<1> DEFINE width == CardWidth(zone, m)
<1> DEFINE gap == m.card_gap
<1> DEFINE p == width + gap
<1> DEFINE offset == StripOffset(zone, m, count, active)
<1> DEFINE x(i) == ColumnX(zone, m, count, active, i)
<1>1. width \in 1..zone.w /\ gap \in Nat /\ zone.w \in Nat \ {0} /\ zone.x \in Int
  BY DEF CardWidth, Least, MetricsOK, IsRect, IsValid
<1>2. /\ p \in Nat /\ p * active \in Nat /\ p * count \in Nat /\ p * active + p <= p * count
      /\ \A i \in 0..count : p * i \in Nat
  BY <1>1, ProductGrows
<1> DEFINE A == p * active
<1> DEFINE N == p * count
<1> DEFINE room == zone.w - (N + width)
<1>5. offset = IF N + width <= zone.w THEN Quot(-room, 2)
               ELSE Clamp(A + Quot(width, 2) - Quot(zone.w, 2), 0, N + width - zone.w)
  BY OffsetIs
<1>6. \A i \in 0..count : x(i) = zone.x + p * i - offset
  <2>1. \A i \in 0..count : i * p = p * i
    BY <1>2
  <2> QED BY <2>1 DEF ColumnX
<1>7. p * 0 = 0
  BY <1>2
<1> HIDE DEF offset, width, x
<1>8. A \in Nat /\ N \in Nat /\ A + width + gap <= N
  BY <1>1, <1>2
<1> HIDE DEF p
<1>9. offset \in Int
  BY <1>1, <1>5, <1>8 DEF Quot, Clamp, Least, Most
<1>10. x(0) = zone.x - offset /\ x(active) = zone.x + A - offset /\ x(count) = zone.x + N - offset
  BY <1>1, <1>6, <1>7, <1>9
<1> HIDE DEF A, N
<1>11. /\ zone.x <= zone.x + A - offset /\ zone.x + A - offset + width <= zone.x + zone.w
       /\ zone.x - offset > zone.x => zone.x + N - offset + width <= zone.x + zone.w
       /\ zone.x + N - offset + width < zone.x + zone.w => zone.x - offset >= zone.x
  <2>1. CASE N + width <= zone.w
    <3>1. offset = -(room \div 2)
      BY <1>1, <1>5, <1>8, <2>1 DEF Quot
    <3> QED BY <1>1, <1>8, <2>1, <3>1
  <2>2. CASE ~(N + width <= zone.w)
    BY <1>1, <1>5, <1>8, <2>2 DEF Quot, Clamp, Least, Most
  <2> QED BY <2>1, <2>2
<1>12. \A i \in 0..count : x(i) \in Int
  BY <1>1, <1>2, <1>6, <1>9
<1> QED BY <1>1, <1>10, <1>11, <1>12 DEF x, width, Right

\* The columns there are, and what column i is.
LEMMA ColumnsFacts ==
  ASSUME NEW zone, IsRect(zone), NEW m, NEW count \in Nat, NEW active
  PROVE  LET columns == CardColumns(zone, m, count, active)
             shown   == ShownColumns(zone, m, count, active)
         IN  /\ DOMAIN columns.cards \subseteq 0..(count - 1)
             /\ DOMAIN columns.cards # {} => IsValid(zone)
             /\ IsValid(zone) => DOMAIN columns.cards = shown \ {count}
             /\ \A i \in DOMAIN columns.cards :
                  columns.cards[i] = Rect(ColumnX(zone, m, count, active, i), zone.y,
                                          CardWidth(zone, m), zone.h)
<1> DEFINE col(i) == Rect(ColumnX(zone, m, count, active, i), zone.y, CardWidth(zone, m), zone.h)
<1> DEFINE shown == ShownColumns(zone, m, count, active)
<1> DEFINE columns == CardColumns(zone, m, count, active)
<1>1. shown \subseteq 0..count
  BY DEF ShownColumns
<1>2. columns = IF zone.w <= 0 \/ zone.h <= 0 THEN [cards |-> << >>, add |-> {}]
                ELSE [cards |-> [i \in shown \ {count} |-> col(i)],
                      add   |-> {col(i) : i \in shown \cap {count}}]
  BY DEF CardColumns
<1> HIDE DEF columns, shown
<1>3. CASE zone.w <= 0 \/ zone.h <= 0
  <2>1. ~IsValid(zone) /\ columns.cards = << >>
    BY <1>2, <1>3 DEF IsValid, IsRect
  <2> QED BY <2>1 DEF columns
<1>4. CASE ~(zone.w <= 0 \/ zone.h <= 0)
  BY <1>1, <1>2, <1>4 DEF columns, shown, IsValid, IsRect
<1> QED BY <1>3, <1>4

\* The row and the column of a cell, counted from 0.
LEMMA CellFacts ==
  ASSUME NEW k \in Nat, NEW cols \in Nat \ {0}, NEW rows \in Nat, k < cols * rows
  PROVE  k % cols \in 0..(cols - 1) /\ k \div cols \in 0..(rows - 1)
<1> DEFINE q == k \div cols
<1>1. /\ q \in Nat /\ k % cols \in 0..(cols - 1)
      /\ cols * q <= k /\ cols * q \in Nat
  BY Division
<1> HIDE DEF q
<1>2. ASSUME rows <= q PROVE FALSE
  <2>1. cols * rows <= cols * q /\ cols * rows \in Nat
    BY <1>1, <1>2, ProductGrows
  <2> QED BY <1>1, <2>1
<1>3. q \in 0..(rows - 1)
  BY <1>1, <1>2
<1> QED BY <1>1, <1>3 DEF q

\* layout_tiles: as many columns as fit between the pads and as many rows as
\* fit between the header and the lower pad.
LEMMA CardTilesFit ==
  ASSUME NEW card, IsRect(card), NEW m, MetricsOK(m), NEW count \in Nat
  PROVE  LET tiles == LayoutTiles(card, m, count)
         IN  /\ \A t \in DOMAIN tiles :
               /\ IsRect(tiles[t]) /\ tiles[t].w = m.tile_unit /\ tiles[t].h = m.tile_unit
               /\ Within(tiles[t], card) /\ Apart(tiles[t], CardHeader(card, m))
               /\ card.x + m.card_pad <= tiles[t].x /\ Right(tiles[t]) + m.card_pad <= Right(card)
               /\ card.y + m.card_pad <= tiles[t].y /\ Bottom(tiles[t]) + m.card_pad <= Bottom(card)
               /\ \A u \in DOMAIN tiles : u # t => Apart(tiles[t], tiles[u])
             /\ Len(tiles) \in Nat /\ DOMAIN tiles = 1..Len(tiles)
<1> DEFINE unit == m.tile_unit
<1> DEFINE inner == card.w - 2 * m.card_pad
<1> DEFINE step == unit + m.tile_gap
<1> DEFINE cols == Most(Quot(inner + m.tile_gap, step), 1)
<1> DEFINE high == Bottom(card) - m.card_pad - (card.y + m.card_header + m.card_pad)
<1> DEFINE rows == IF high < unit THEN 0 ELSE (high - unit) \div step + 1
<1> DEFINE left == card.x + m.card_pad
<1> DEFINE top == card.y + m.card_header + m.card_pad
<1> DEFINE tiles == LayoutTiles(card, m, count)
<1>1. CASE inner < unit \/ card.h <= 0
  <2>1. tiles = << >>
    BY <1>1 DEF LayoutTiles
  <2> QED BY <2>1
<1>2. CASE ~(inner < unit \/ card.h <= 0)
  <2>1. tiles = [n \in 1..Least(count, cols * rows) |->
                   Rect(left + ((n - 1) % cols) * step, top + ((n - 1) \div cols) * step, unit, unit)]
    BY <1>2 DEF LayoutTiles
  <2>2. /\ unit \in Nat \ {0} /\ m.tile_gap \in Nat /\ inner \in Int /\ inner >= unit
        /\ step \in Nat \ {0} /\ step = unit + m.tile_gap /\ high \in Int
        /\ left \in Int /\ top \in Int
        /\ card.x <= left /\ left + inner <= Right(card)
        /\ card.y + m.card_header <= top /\ top + high <= Bottom(card)
        /\ card.x + m.card_pad = left /\ left + inner + m.card_pad = Right(card)
        /\ card.y + m.card_pad <= top /\ top + high + m.card_pad = Bottom(card)
        /\ m.card_pad \in Nat /\ card.x \in Int
        /\ card.y \in Int /\ m.card_header \in Nat /\ Bottom(card) \in Int /\ Right(card) \in Int
    BY <1>2 DEF MetricsOK, IsRect, Right, Bottom
  <2> HIDE DEF tiles, inner, step, high, left, top, unit
  <2>3. cols \in Nat \ {0} /\ step * cols <= inner + m.tile_gap /\ step * cols \in Nat
    <3> DEFINE room == inner + m.tile_gap
    <3> DEFINE q == room \div step
    <3>1. room \in Nat /\ room >= step
      BY <2>2
    <3>2. Quot(inner + m.tile_gap, step) = q
      BY <2>2 DEF Quot
    <3> HIDE DEF room
    <3>3. /\ q \in Nat /\ step * q \in Nat /\ step * q <= room
          /\ room % step \in 0..(step - 1) /\ room = step * q + (room % step)
      BY <2>2, <3>1, Division
    <3> HIDE DEF q
    <3>4. q # 0
      <4> SUFFICES ASSUME q = 0 PROVE FALSE
        OBVIOUS
      <4>1. step * q = 0
        BY <2>2
      <4> QED BY <2>2, <3>1, <3>3, <4>1
    <3>5. cols = q
      BY <3>2, <3>3, <3>4 DEF Most
    <3> HIDE DEF cols
    <3> QED BY <3>3, <3>4, <3>5 DEF room
  <2>4. rows \in Nat /\ \A r \in 0..(rows - 1) : step * r + unit <= high /\ step * r \in Nat
    <3>1. CASE high < unit
      BY <3>1
    <3>2. CASE ~(high < unit)
      <4> DEFINE room == high - unit
      <4> DEFINE q == room \div step
      <4>1. room \in Nat
        BY <2>2, <3>2
      <4>2. rows = q + 1
        BY <3>2
      <4> HIDE DEF room, rows
      <4>3. q \in Nat /\ step * q \in Nat /\ step * q <= room
        BY <2>2, <4>1, Division
      <4> HIDE DEF q
      <4>4. ASSUME NEW r \in 0..(rows - 1) PROVE step * r + unit <= high /\ step * r \in Nat
        <5>1. r \in Nat /\ r <= q
          BY <4>2, <4>3
        <5>2. step * r \in Nat /\ step * r <= step * q
          BY <2>2, <4>3, <5>1, ProductGrows
        <5> QED BY <2>2, <4>3, <5>2 DEF room
      <4> QED BY <4>2, <4>3, <4>4
    <3> QED BY <3>1, <3>2
  <2> HIDE DEF cols, rows
  <2>5. \A c \in 0..(cols - 1) : step * c + unit <= inner /\ step * c \in Nat
    <3> SUFFICES ASSUME NEW c \in 0..(cols - 1) PROVE step * c + unit <= inner /\ step * c \in Nat
      OBVIOUS
    <3>1. c \in Nat /\ c < cols
      BY <2>3
    <3>2. step * c \in Nat /\ step * c + step <= step * cols
      BY <2>2, <2>3, <3>1, ProductGrows
    <3> QED BY <2>2, <2>3, <3>2
  <2> DEFINE c(n) == (n - 1) % cols
  <2> DEFINE r(n) == (n - 1) \div cols
  <2>6. ASSUME NEW n \in DOMAIN tiles
        PROVE  /\ n \in Nat \ {0} /\ c(n) \in 0..(cols - 1) /\ r(n) \in 0..(rows - 1)
               /\ n - 1 = cols * r(n) + c(n)
               /\ tiles[n] = Rect(left + step * c(n), top + step * r(n), unit, unit)
    <3>1. n \in 1..Least(count, cols * rows)
      BY <2>1, <2>6
    <3>2. cols * rows \in Nat
      BY <2>3, <2>4
    <3>3. n - 1 \in Nat /\ n - 1 < cols * rows
      BY <3>1, <3>2 DEF Least
    <3>4. c(n) \in 0..(cols - 1) /\ r(n) \in 0..(rows - 1)
      BY <2>3, <2>4, <3>3, CellFacts
    <3>5. n - 1 = cols * r(n) + c(n)
      BY <2>3, <3>3, Division
    <3>6. tiles[n] = Rect(left + c(n) * step, top + r(n) * step, unit, unit)
      BY <2>1, <3>1
    <3> HIDE DEF c, r
    <3>7. c(n) * step = step * c(n) /\ r(n) * step = step * r(n)
      <4>1. c(n) \in Int /\ r(n) \in Int /\ step \in Int
        BY <2>2, <2>3, <2>4, <3>4
      <4> QED BY <4>1
    <3> QED BY <3>1, <3>2, <3>4, <3>5, <3>6, <3>7
  <2> HIDE DEF c, r
  <2>7. ASSUME NEW n \in DOMAIN tiles
        PROVE  /\ tiles[n].x = left + step * c(n) /\ tiles[n].y = top + step * r(n)
               /\ tiles[n].w = unit /\ tiles[n].h = unit
               /\ Right(tiles[n]) = left + step * c(n) + unit
               /\ Bottom(tiles[n]) = top + step * r(n) + unit
               /\ step * c(n) \in Nat /\ step * c(n) + unit <= inner
               /\ step * r(n) \in Nat /\ step * r(n) + unit <= high
    <3>1. step * c(n) \in Nat /\ step * c(n) + unit <= inner
      BY <2>5, <2>6
    <3>2. step * r(n) \in Nat /\ step * r(n) + unit <= high
      BY <2>4, <2>6
    <3> QED BY <2>6, <3>1, <3>2 DEF Rect, Right, Bottom
  <2>8. ASSUME NEW n \in DOMAIN tiles
        PROVE  /\ IsRect(tiles[n]) /\ Within(tiles[n], card) /\ Apart(tiles[n], CardHeader(card, m))
               /\ card.x + m.card_pad <= tiles[n].x /\ Right(tiles[n]) + m.card_pad <= Right(card)
               /\ card.y + m.card_pad <= tiles[n].y /\ Bottom(tiles[n]) + m.card_pad <= Bottom(card)
    <3>1. IsRect(tiles[n])
      BY <2>2, <2>6, <2>7 DEF IsRect
    <3>2. Within(tiles[n], card)
      BY <2>2, <2>7 DEF Within, IsRect
    <3>3. Bottom(CardHeader(card, m)) = card.y + m.card_header
      BY <2>2 DEF CardHeader, Bottom, Rect, Most
    <3>4. /\ card.x + m.card_pad <= tiles[n].x /\ Right(tiles[n]) + m.card_pad <= Right(card)
          /\ card.y + m.card_pad <= tiles[n].y /\ Bottom(tiles[n]) + m.card_pad <= Bottom(card)
      BY <2>2, <2>7
    <3> QED BY <2>2, <2>7, <3>1, <3>2, <3>3, <3>4 DEF Apart
  <2>9. ASSUME NEW n \in DOMAIN tiles, NEW k \in DOMAIN tiles, n # k
        PROVE  Apart(tiles[n], tiles[k])
    <3>1. c(n) # c(k) \/ r(n) # r(k)
      BY <2>6, <2>9
    <3>2. \A a, b \in Nat : a < b => step * a + step <= step * b
      BY <2>2, ProductGrows
    <3>3. c(n) \in Nat /\ c(k) \in Nat /\ r(n) \in Nat /\ r(k) \in Nat
      BY <2>3, <2>4, <2>6
    <3>4. \/ step * c(n) + step <= step * c(k) \/ step * c(k) + step <= step * c(n)
          \/ step * r(n) + step <= step * r(k) \/ step * r(k) + step <= step * r(n)
      BY <3>1, <3>2, <3>3
    <3> QED BY <2>2, <2>7, <3>4 DEF Apart
  <2>10. Len(tiles) \in Nat /\ DOMAIN tiles = 1..Len(tiles)
    <3>1. cols * rows \in Nat
      BY <2>3, <2>4
    <3>2. Least(count, cols * rows) \in Nat
      BY <3>1 DEF Least
    <3> QED BY <2>1, <3>2
  <2> QED BY <2>7, <2>8, <2>9, <2>10 DEF tiles, unit
<1> QED BY <1>1, <1>2

\* tile_face: the mark above, the name below it, both inside.
LEMMA FaceFits ==
  ASSUME NEW tile, IsRect(tile), NEW wanted \in Int
  PROVE  LET face == TileFace(tile, wanted)
         IN  /\ Within(face.icon, tile)
             /\ \A c \in face.caption : Within(c, tile) /\ Apart(c, face.icon) /\ c \in AnyRect
             /\ IsFiniteSet(face.caption)
<1> DEFINE line == Most(wanted, 0)
<1> DEFINE high == tile.h - line
<1> DEFINE side == Least(high, tile.w)
<1> DEFINE pad == Least(CaptionPad, Quot(tile.w, 8))
<1> DEFINE face == TileFace(tile, wanted)
<1>1. CASE line > 0 /\ high >= Quot(tile.h, 2) /\ tile.w > 0
  <2>1. face = [icon |-> Rect(tile.x + Quot(tile.w - side, 2), tile.y + Quot(high - side, 2), side, side),
                caption |-> {Rect(tile.x + pad, Bottom(tile) - line, tile.w - 2 * pad, line)}]
    BY <1>1 DEF TileFace
  <2>2. /\ line \in Nat /\ high \in Nat /\ high = tile.h - line /\ side \in Nat /\ side <= high
        /\ side <= tile.w /\ pad \in Nat
    BY <1>1 DEF IsRect, Most, Least, Quot, CaptionPad
  <2> HIDE DEF line, high, side, pad, face
  <2>3. /\ Quot(tile.w - side, 2) \in Nat /\ Quot(tile.w - side, 2) + side <= tile.w
        /\ Quot(high - side, 2) \in Nat /\ Quot(high - side, 2) + side <= high
    BY <2>2 DEF IsRect, Quot
  <2>4. Within(face.icon, tile)
    BY <2>1, <2>2, <2>3 DEF IsRect, Within, Right, Bottom, Rect
  <2>5. \A c \in face.caption : Within(c, tile) /\ Apart(c, face.icon)
    BY <2>1, <2>2, <2>3 DEF IsRect, Within, Apart, Right, Bottom, Rect
  <2>6. \A c \in face.caption : c \in AnyRect
    <3>1. tile.x + pad \in Int /\ Bottom(tile) - line \in Int /\ tile.w - 2 * pad \in Int
      BY <2>2 DEF IsRect, Bottom
    <3> QED BY <2>1, <2>2, <3>1, RectIsPlain
  <2>7. IsFiniteSet(face.caption)
    BY <2>1, FS_Singleton
  <2> QED BY <2>4, <2>5, <2>6, <2>7 DEF face
<1>2. CASE ~(line > 0 /\ high >= Quot(tile.h, 2) /\ tile.w > 0)
  <2>1. face = [icon |-> tile, caption |-> {}]
    BY <1>2 DEF TileFace
  <2> QED BY <2>1, FS_EmptySet DEF IsRect, Within, Right, Bottom
<1> QED BY <1>1, <1>2

----------------------------------------------------------------------------
(* The tiles                                                               *)

\* What two or three windows get of an extent, the gaps paid for.
LEMMA ExtentsShareOut ==
  ASSUME NEW extent \in Nat, NEW gap \in Nat, NEW n \in {2, 3},
         extent - gap * (n - 1) >= n * MinTileExtent
  PROVE  LET e == TileExtents(extent - gap * (n - 1), n, EvenSplit)
         IN  /\ \A i \in 1..n : e[i] \in Int /\ e[i] >= MinTileExtent
             /\ n = 2 => e[1] + e[2] + gap = extent
             /\ n = 3 => e[1] + e[2] + e[3] + 2 * gap = extent
<1> DEFINE free == extent - gap * (n - 1)
<1> DEFINE e == TileExtents(free, n, EvenSplit)
<1>1. CASE n = 2
  <2>1. free = extent - gap /\ free \in Nat /\ free >= 480
    BY <1>1 DEF MinTileExtent
  <2> HIDE DEF free
  <2>2. e[1] = Quot(free * 500, 1000) /\ e[2] = free - Quot(free * 500, 1000)
    BY <1>1 DEF TileExtents, EvenSplit
  <2>3. 1..2 = {1, 2}
    OBVIOUS
  <2> HIDE DEF e
  <2>4. e[1] \in Int /\ e[1] >= 240 /\ e[2] \in Int /\ e[2] >= 240 /\ e[1] + e[2] = free
    BY <2>1, <2>2 DEF Quot
  <2> QED BY <1>1, <2>1, <2>3, <2>4 DEF e, free, MinTileExtent
<1>2. CASE n = 3
  <2>1. free = extent - 2 * gap /\ free \in Nat /\ free >= 720
    BY <1>2 DEF MinTileExtent
  <2> HIDE DEF free
  <2>2. \A i \in 1..3 : e[i] = (free \div 3) + (IF i <= free % 3 THEN 1 ELSE 0)
    BY <1>2 DEF TileExtents
  <2>3. 1..3 = {1, 2, 3}
    OBVIOUS
  <2> HIDE DEF e
  <2>4. /\ e[1] = (free \div 3) + (IF 1 <= free % 3 THEN 1 ELSE 0)
        /\ e[2] = (free \div 3) + (IF 2 <= free % 3 THEN 1 ELSE 0)
        /\ e[3] = (free \div 3) + (IF 3 <= free % 3 THEN 1 ELSE 0)
    BY <2>2, <2>3
  <2>5. /\ e[1] \in Int /\ e[1] >= 240 /\ e[2] \in Int /\ e[2] >= 240 /\ e[3] \in Int /\ e[3] >= 240
        /\ e[1] + e[2] + e[3] = free
    BY <2>1, <2>4
  <2> QED BY <1>2, <2>1, <2>3, <2>5 DEF e, free, MinTileExtent
<1> QED BY <1>1, <1>2

LEMMA TileCount ==
  ASSUME NEW zone, NEW wanted \in Nat, NEW split, NEW gaps
  PROVE  Len(Tile(zone, wanted, split, gaps)) \in Nat
<1> DEFINE count == Least(wanted, TileLimit(zone, gaps))
<1> DEFINE inner == Inset(zone, gaps.outer)
<1> DEFINE extent == IF IsVertical(zone) THEN inner.h ELSE inner.w
<1> DEFINE extents == TileExtents(extent - gaps.inner * (count - 1), count, split)
<1> DEFINE start == [i \in 1..count |-> (i - 1) * gaps.inner
                       + (IF i > 1 THEN extents[1] ELSE 0) + (IF i > 2 THEN extents[2] ELSE 0)]
<1> DEFINE tile(i) == IF IsVertical(zone)
                      THEN Rect(inner.x, inner.y + start[i], inner.w, extents[i])
                      ELSE Rect(inner.x + start[i], inner.y, extents[i], inner.h)
<1>1. TileLimit(zone, gaps) \in 0..3
  BY DEF TileLimit
<1>2. count \in Nat
  BY <1>1 DEF Least
<1>3. Tile(zone, wanted, split, gaps) = IF count = 0 THEN << >> ELSE IF count = 1 THEN <<inner>>
                                        ELSE [i \in 1..count |-> tile(i)]
  BY DEF Tile
<1> HIDE DEF count, tile, inner
<1> QED BY <1>2, <1>3

\* Tiles are rectangles, however many are wanted.
LEMMA TilesArePlain ==
  ASSUME NEW zone, IsRect(zone), NEW wanted \in Nat, NEW gaps, gaps.inner \in Int, gaps.outer \in Int
  PROVE  LET rects == Tile(zone, wanted, EvenSplit, gaps)
         IN  DOMAIN rects = 1..Len(rects) /\ \A i \in DOMAIN rects : rects[i] \in AnyRect
<1> DEFINE count == Least(wanted, TileLimit(zone, gaps))
<1> DEFINE inner == Inset(zone, gaps.outer)
<1> DEFINE extent == IF IsVertical(zone) THEN inner.h ELSE inner.w
<1> DEFINE extents == TileExtents(extent - gaps.inner * (count - 1), count, EvenSplit)
<1> DEFINE start == [i \in 1..count |-> (i - 1) * gaps.inner
                       + (IF i > 1 THEN extents[1] ELSE 0) + (IF i > 2 THEN extents[2] ELSE 0)]
<1> DEFINE tile(i) == IF IsVertical(zone)
                      THEN Rect(inner.x, inner.y + start[i], inner.w, extents[i])
                      ELSE Rect(inner.x + start[i], inner.y, extents[i], inner.h)
<1>1. count \in 0..3
  <2>1. TileLimit(zone, gaps) \in 0..3
    BY DEF TileLimit
  <2> QED BY <2>1 DEF Least
<1>2. Tile(zone, wanted, EvenSplit, gaps) = IF count = 0 THEN << >> ELSE IF count = 1 THEN <<inner>>
                                            ELSE [i \in 1..count |-> tile(i)]
  BY DEF Tile
<1>3. inner \in AnyRect /\ inner.x \in Int /\ inner.y \in Int /\ inner.w \in Int /\ inner.h \in Int
  BY DEF Inset, IsRect, AnyRect, Rect, Most
<1>4. ASSUME count > 1 PROVE \A i \in 1..count : extents[i] \in Int
  <2> DEFINE free == extent - gaps.inner * (count - 1)
  <2>1. free \in Int
    BY <1>1, <1>3
  <2>2. count \in {2, 3}
    BY <1>1, <1>4
  <2> HIDE DEF free, count
  <2>3. CASE count = 2
    <3>1. TileExtents(free, count, EvenSplit) = <<Quot(free * 500, 1000), free - Quot(free * 500, 1000)>>
      BY <2>3 DEF TileExtents, EvenSplit
    <3>2. Quot(free * 500, 1000) \in Int
      BY <2>1 DEF Quot
    <3>3. 1..2 = {1, 2}
      OBVIOUS
    <3> QED BY <2>1, <2>3, <3>1, <3>2, <3>3 DEF free
  <2>4. CASE count = 3
    <3>1. TileExtents(free, count, EvenSplit)
            = [i \in 1..count |-> (free \div count) + (IF i <= free % count THEN 1 ELSE 0)]
      BY <2>4 DEF TileExtents
    <3>2. \A i \in 1..count : TileExtents(free, count, EvenSplit)[i] \in Int
      BY <2>1, <2>4, <3>1
    <3> QED BY <3>2 DEF free
  <2> QED BY <2>2, <2>3, <2>4
<1>5. CASE count = 0
  BY <1>2, <1>5
<1>6. CASE count = 1
  BY <1>2, <1>3, <1>6
<1>7. CASE count > 1
  <2> HIDE DEF extents
  <2>1. \A i \in 1..count : start[i] \in Int
    <3>1. extents[1] \in Int /\ extents[2] \in Int
      BY <1>1, <1>4, <1>7
    <3> QED BY <1>1, <3>1
  <2> HIDE DEF start, inner
  <2>2. ASSUME NEW i \in 1..count PROVE tile(i) \in AnyRect
    <3>1. extents[i] \in Int /\ start[i] \in Int
      BY <1>4, <1>7, <2>1
    <3> HIDE DEF count
    <3>2. inner.x + start[i] \in Int /\ inner.y + start[i] \in Int
      BY <1>3, <3>1
    <3> QED BY <1>3, <3>1, <3>2, RectIsPlain
  <2> HIDE DEF tile, count
  <2> QED BY <1>1, <1>2, <1>7, <2>2
<1> QED BY <1>1, <1>5, <1>6, <1>7

\* tile: as many tiles as the area supports lie side by side in it, each big
\* enough, with a gap between two and none at the ends.
LEMMA TilesFit ==
  ASSUME NEW apps, IsRect(apps), NEW gaps, gaps.inner \in Nat, gaps.outer \in Nat,
         NEW wanted \in Nat, wanted <= TileLimit(apps, gaps),
         IsValid(Inset(apps, gaps.outer))
  PROVE  LET rects   == Tile(apps, wanted, EvenSplit, gaps)
             inner   == Inset(apps, gaps.outer)
             near(r) == IF IsVertical(apps) THEN r.y ELSE r.x
             far(r)  == IF IsVertical(apps) THEN Bottom(r) ELSE Right(r)
         IN  /\ Len(rects) = wanted /\ DOMAIN rects = 1..wanted
             /\ \A i \in 1..wanted :
                  /\ Within(rects[i], inner) /\ IsValid(rects[i])
                  /\ wanted > 1 => far(rects[i]) - near(rects[i]) >= MinTileExtent
                  /\ near(rects[i]) = IF i = 1 THEN near(inner) ELSE far(rects[i - 1]) + gaps.inner
                  /\ i = wanted => far(rects[i]) = far(inner)
                  /\ \A j \in 1..wanted : i # j => Apart(rects[i], rects[j])
<1> DEFINE rects == Tile(apps, wanted, EvenSplit, gaps)
<1> DEFINE inner == Inset(apps, gaps.outer)
<1> DEFINE gap == gaps.inner
<1> DEFINE vertical == IsVertical(apps)
<1> DEFINE near(r) == IF vertical THEN r.y ELSE r.x
<1> DEFINE far(r) == IF vertical THEN Bottom(r) ELSE Right(r)
<1> DEFINE extent == IF vertical THEN inner.h ELSE inner.w
<1> DEFINE e == TileExtents(extent - gap * (wanted - 1), wanted, EvenSplit)
<1> DEFINE start == [i \in 1..wanted |-> (i - 1) * gap + (IF i > 1 THEN e[1] ELSE 0)
                                                      + (IF i > 2 THEN e[2] ELSE 0)]
<1>1. /\ IsRect(inner) /\ inner.w > 0 /\ inner.h > 0
      /\ inner.w = apps.w - 2 * gaps.outer /\ inner.h = apps.h - 2 * gaps.outer
  BY DEF IsRect, IsValid, Inset, Rect, Most
<1>2. gap \in Nat /\ extent \in Nat \ {0} /\ vertical \in BOOLEAN
  BY <1>1 DEF IsRect, IsVertical
<1>3. LongerExtent(apps) - 2 * gaps.outer = extent
  BY <1>1 DEF LongerExtent
<1>4. TileLimit(apps, gaps) \in 0..3
  BY DEF TileLimit
<1>5. wanted \in 0..3 /\ Least(wanted, TileLimit(apps, gaps)) = wanted
  BY <1>4 DEF Least
<1>6. /\ wanted = 2 => extent - gap >= 2 * MinTileExtent
      /\ wanted = 3 => extent - 2 * gap >= 3 * MinTileExtent
  <2> DEFINE usable == LongerExtent(apps) - 2 * gaps.outer
  <2>1. TileLimit(apps, gaps) = IF ~IsValid(apps) \/ usable <= 0 THEN 0
                                ELSE IF usable < MinTileExtent THEN 1
                                ELSE IF Quot(usable - gap, 2) < MinTileExtent THEN 1
                                ELSE IF /\ LongerExtent(apps) >= WideOutputExtent
                                        /\ Quot(usable - 2 * gap, 3) >= MinTileExtent THEN 3
                                ELSE 2
    BY DEF TileLimit
  <2>2. usable = extent
    BY <1>3
  <2> HIDE DEF usable, extent
  <2>3. /\ TileLimit(apps, gaps) >= 2 => Quot(extent - gap, 2) >= MinTileExtent
        /\ TileLimit(apps, gaps) = 3 => Quot(extent - 2 * gap, 3) >= MinTileExtent
    BY <1>2, <2>1, <2>2 DEF Quot, MinTileExtent
  <2> QED BY <1>2, <1>4, <2>3 DEF Quot, MinTileExtent
<1>7. rects = IF wanted = 0 THEN << >> ELSE IF wanted = 1 THEN <<inner>>
              ELSE [i \in 1..wanted |->
                      IF vertical THEN Rect(inner.x, inner.y + start[i], inner.w, e[i])
                                  ELSE Rect(inner.x + start[i], inner.y, e[i], inner.h)]
  BY <1>5 DEF Tile
<1> HIDE DEF rects, inner
<1>8. CASE wanted = 0
  BY <1>7, <1>8 DEF rects
<1>9. CASE wanted = 1
  <2>1. Len(rects) = 1 /\ DOMAIN rects = 1..1 /\ rects[1] = inner
    BY <1>7, <1>9
  <2> QED BY <1>1, <1>9, <2>1 DEF IsRect, IsValid, Within, Right, Bottom, rects, inner
<1>10. CASE wanted \in {2, 3}
  <2>1. rects = [i \in 1..wanted |->
                   IF vertical THEN Rect(inner.x, inner.y + start[i], inner.w, e[i])
                               ELSE Rect(inner.x + start[i], inner.y, e[i], inner.h)]
    BY <1>7, <1>10
  <2>2. /\ \A i \in 1..wanted : e[i] \in Int /\ e[i] >= MinTileExtent
        /\ wanted = 2 => e[1] + e[2] + gap = extent
        /\ wanted = 3 => e[1] + e[2] + e[3] + 2 * gap = extent
    <3>1. extent - gap * (wanted - 1) >= wanted * MinTileExtent
      BY <1>2, <1>6, <1>10
    <3> HIDE DEF extent, gap
    <3> QED BY <1>2, <1>10, <3>1, ExtentsShareOut
  <2> HIDE DEF e
  <2>3. 1..2 = {1, 2} /\ 1..3 = {1, 2, 3}
    OBVIOUS
  <2>4. /\ start[1] = 0 /\ start[2] = gap + e[1]
        /\ wanted = 3 => start[3] = 2 * gap + e[1] + e[2]
    <3>1. \A i \in 1..wanted : start[i] = (i - 1) * gap + (IF i > 1 THEN e[1] ELSE 0)
                                                        + (IF i > 2 THEN e[2] ELSE 0)
      OBVIOUS
    <3>2. 1 \in 1..wanted /\ 2 \in 1..wanted /\ (wanted = 3 => 3 \in 1..wanted)
      BY <1>10
    <3> HIDE DEF start, gap
    <3>3. e[1] \in Int /\ e[2] \in Int
      BY <2>2, <3>2
    <3>4. start[1] = 0 * gap + 0 + 0 /\ start[2] = 1 * gap + e[1] + 0
      BY <3>1, <3>2
    <3>5. wanted = 3 => start[3] = 2 * gap + e[1] + e[2]
      BY <3>1, <3>2
    <3> QED BY <1>2, <3>3, <3>4, <3>5
  <2> HIDE DEF start, extent, gap
  <2>5. /\ \A i \in 1..wanted : start[i] \in Nat /\ start[i] + e[i] <= extent
        /\ \A i \in 1..wanted : i > 1 => start[i] = start[i - 1] + e[i - 1] + gap
        /\ start[wanted] + e[wanted] = extent
        /\ \A i, j \in 1..wanted : i < j => start[i] + e[i] <= start[j]
    <3>1. CASE wanted = 2
      <4>1. e[1] \in Int /\ e[1] >= 240 /\ e[2] \in Int /\ e[2] >= 240 /\ e[1] + e[2] + gap = extent
        BY <2>2, <2>3, <3>1 DEF MinTileExtent
      <4> QED BY <1>2, <2>3, <2>4, <3>1, <4>1
    <3>2. CASE wanted = 3
      <4>1. /\ e[1] \in Int /\ e[1] >= 240 /\ e[2] \in Int /\ e[2] >= 240
            /\ e[3] \in Int /\ e[3] >= 240 /\ e[1] + e[2] + e[3] + 2 * gap = extent
        BY <2>2, <2>3, <3>2 DEF MinTileExtent
      <4> QED BY <1>2, <2>3, <2>4, <3>2, <4>1
    <3> QED BY <1>10, <3>1, <3>2
  <2>6. Len(rects) = wanted /\ DOMAIN rects = 1..wanted
    BY <1>10, <2>1
  <2>7. ASSUME NEW i \in 1..wanted
        PROVE  /\ near(rects[i]) = near(inner) + start[i] /\ far(rects[i]) = near(inner) + start[i] + e[i]
               /\ Within(rects[i], inner) /\ IsValid(rects[i])
    <3>1. e[i] \in Int /\ e[i] > 0 /\ start[i] \in Nat /\ start[i] + e[i] <= extent
      BY <2>2, <2>5 DEF MinTileExtent
    <3>2. CASE vertical
      <4>1. rects[i] = Rect(inner.x, inner.y + start[i], inner.w, e[i])
        BY <2>1, <3>2
      <4> QED BY <1>1, <3>1, <3>2, <4>1 DEF Rect, Right, Bottom, Within, IsValid, IsRect, extent
    <3>3. CASE ~vertical
      <4>1. rects[i] = Rect(inner.x + start[i], inner.y, e[i], inner.h)
        BY <2>1, <3>3
      <4> QED BY <1>1, <3>1, <3>3, <4>1 DEF Rect, Right, Bottom, Within, IsValid, IsRect, extent
    <3> QED BY <3>2, <3>3
  <2>8. near(inner) \in Int /\ far(inner) = near(inner) + extent
    BY <1>1 DEF IsRect, Right, Bottom, extent
  <2> DEFINE from == near(inner)
  <2>9. \A i \in 1..wanted : /\ near(rects[i]) = from + start[i] /\ far(rects[i]) = from + start[i] + e[i]
                             /\ start[i] \in Int /\ e[i] \in Int
    BY <2>2, <2>5, <2>7
  <2>10. \A r, q : near(r) >= far(q) \/ near(q) >= far(r) => Apart(r, q)
    BY DEF Apart
  <2> HIDE DEF from, near, far
  <2>11. ASSUME NEW i \in 1..wanted
         PROVE  /\ wanted > 1 => far(rects[i]) - near(rects[i]) >= MinTileExtent
                /\ near(rects[i]) = IF i = 1 THEN near(inner) ELSE far(rects[i - 1]) + gap
                /\ i = wanted => far(rects[i]) = far(inner)
                /\ \A j \in 1..wanted : i # j => Apart(rects[i], rects[j])
    <3>1. far(rects[i]) - near(rects[i]) >= MinTileExtent
      BY <2>2, <2>8, <2>9 DEF from, MinTileExtent
    <3>2. near(rects[i]) = IF i = 1 THEN near(inner) ELSE far(rects[i - 1]) + gap
      <4>1. CASE i = 1
        BY <2>4, <2>8, <2>9, <4>1 DEF from
      <4>2. CASE i # 1
        <5>1. i - 1 \in 1..wanted /\ i > 1
          BY <4>2
        <5> QED BY <1>2, <2>5, <2>8, <2>9, <4>2, <5>1 DEF from
      <4> QED BY <4>1, <4>2
    <3>3. i = wanted => far(rects[i]) = far(inner)
      BY <1>2, <2>5, <2>8, <2>9 DEF from
    <3>4. ASSUME NEW j \in 1..wanted, i # j PROVE Apart(rects[i], rects[j])
      <4>1. near(rects[i]) >= far(rects[j]) \/ near(rects[j]) >= far(rects[i])
        BY <2>5, <2>8, <2>9, <3>4 DEF from
      <4> QED BY <2>10, <4>1
    <3> QED BY <3>1, <3>2, <3>3, <3>4
  <2> QED BY <2>6, <2>7, <2>11 DEF rects, inner, gap, near, far
<1> QED BY <1>5, <1>8, <1>9, <1>10

----------------------------------------------------------------------------
(* What every step preserves                                               *)

\* As many tiles as the zone between the bars has room for.
Roomy(m, a) ==
  /\ Screen \in DOMAIN m.slots
  /\ m.slots[Screen].capacity = TileLimit(ZonesOf(a, theme).apps, GapsOf(theme.metrics))

\* A window's sizes are sizes, and a menu's place is one.
SizeOK(s) == s.w \in Nat /\ s.h \in Nat /\ IsValid(s)

PlaceOK(q) == q = << >> \/ q \in Int \X Int \X Int \X Int

LookOK(l) ==
  /\ l = [min_size |-> l.min_size, size |-> l.size, fullscreen |-> l.fullscreen,
          position |-> l.position]
  /\ SizeOK(l.min_size) /\ SizeOK(l.size) /\ l.fullscreen \in BOOLEAN /\ PlaceOK(l.position)

LooksOK(looks, live) == DOMAIN looks = live /\ \A w \in live : LookOK(looks[w])

\* A strip with an active card.
CardsOK(s) == StripOK(s) /\ s.active < Len(s.tabs)

Sound(m) == Good(m) /\ FamiliesOK(m)

ScreenInv ==
  /\ area \in Areas
  /\ theme \in {Sanitised(t, "pointer") : t \in RawThemes}
  /\ CardsOK(strip)
  /\ Sound(windows) /\ Roomy(windows, area)
  /\ LooksOK(look, Live(windows))

\* A theme that was sanitised asks for nothing that is no size.
LEMMA ThemeFacts ==
  ASSUME theme \in {Sanitised(t, "pointer") : t \in RawThemes}
  PROVE  /\ MetricsOK(theme.metrics)
         /\ theme.fonts.size_tile \in Int /\ theme.fonts.size_card \in Int
<1>1. PICK t \in RawThemes : theme = Sanitised(t, "pointer")
  OBVIOUS
<1>2. t.metrics \in [DOMAIN BuiltinMetrics -> Int] /\ t.fonts \in [DOMAIN BuiltinFonts -> Int]
  BY ThemesAssumption
<1>3. theme.metrics = SanitisedMetrics(t.metrics, "pointer") /\ theme.fonts = SanitisedFonts(t.fonts)
  BY <1>1 DEF Sanitised
<1>4. DOMAIN BuiltinMetrics =
        {"top_bar", "bottom_bar", "card_header", "card_width", "card_gap", "card_pad", "tile_unit",
         "tile_gap", "inner_gap", "outer_gap", "focus_width"}
  BY DEF BuiltinMetrics
<1>5. DOMAIN BuiltinFonts = {"size_bar", "size_tile", "size_card", "size_tile_value"}
  BY DEF BuiltinFonts
<1>6. \A f \in DOMAIN BuiltinMetrics :
        /\ theme.metrics[f] \in Nat
        /\ f \in Touchable => theme.metrics[f] >= 16
        /\ f = "focus_width" => theme.metrics[f] >= 1
  <2>1. \A f : /\ MetricFloor(f, "pointer") \in {0, 1, 16}
               /\ f \in Touchable => MetricFloor(f, "pointer") = 16
               /\ f = "focus_width" => MetricFloor(f, "pointer") = 1
    BY DEF MetricFloor, Floor, Touchable
  <2>2. \A f \in DOMAIN BuiltinMetrics :
          t.metrics[f] \in Int /\ theme.metrics[f] = Most(t.metrics[f], MetricFloor(f, "pointer"))
    BY <1>2, <1>3 DEF SanitisedMetrics
  <2> QED BY <2>1, <2>2 DEF Most
<1>7. theme.fonts["size_tile"] \in Int /\ theme.fonts["size_card"] \in Int
  BY <1>2, <1>3, <1>5 DEF SanitisedFonts, Most, MinFontSize
<1>8. /\ theme.metrics["card_width"] >= 16 /\ theme.metrics["tile_unit"] >= 16
      /\ theme.metrics["focus_width"] >= 1
      /\ \A f \in DOMAIN BuiltinMetrics : theme.metrics[f] \in Nat
  BY <1>4, <1>6 DEF Touchable
<1>9. MetricsOK(theme.metrics)
  BY <1>4, <1>8 DEF MetricsOK
<1> QED BY <1>7, <1>9

\* The zone between the bars of a screen.
LEMMA ZonesFacts ==
  ASSUME NEW a \in Areas, theme \in {Sanitised(t, "pointer") : t \in RawThemes}
  PROVE  LET z == ZonesOf(a, theme)
         IN  /\ IsRect(a)
             /\ IsRect(z.top_bar) /\ IsRect(z.apps) /\ IsRect(z.bottom_bar)
             /\ Covers(z, a)
             /\ a.h >= 4 => /\ z.top_bar.h + z.bottom_bar.h <= Quot(a.h, 2)
                            /\ z.top_bar.h > 0 /\ z.bottom_bar.h > 0
             /\ TileLimit(z.apps, GapsOf(theme.metrics)) \in 0..3
<1>1. IsRect(a)
  BY AreasAssumption DEF IsRect
<1>2. BarHeights(theme.metrics).top \in Int /\ BarHeights(theme.metrics).bottom \in Int
  BY ThemeFacts DEF MetricsOK, BarHeights
<1>3. \A r, gaps : TileLimit(r, gaps) \in 0..3
  BY DEF TileLimit
<1> QED BY <1>1, <1>2, <1>3, ZonesFit DEF ZonesOf

LEMMA CapacityIsSet ==
  ASSUME NEW m, Good(m), NEW o \in Outputs, NEW c \in Nat
  PROVE  /\ o \in DOMAIN SetCapacity(m, o, c).slots
         /\ SetCapacity(m, o, c).slots[o].capacity = c
<1> DEFINE s == SlotMut(m, o)
<1> DEFINE t == Take(s.tiled, c)
<1> DEFINE b == [order |-> s.order, tiled |-> t, capacity |-> c]
<1>1. s \in Slots /\ TilesOK(s) /\ ModelTypeOK(m)
  BY SlotMutFacts DEF Good
<1> HIDE DEF s
<1>2. s.order \in Seq(Nat) /\ s.tiled \in Seq(Nat)
  BY <1>1 DEF Slots
<1>3. /\ t \in Seq(Nat) /\ Len(t) = (IF c < Len(s.tiled) THEN c ELSE Len(s.tiled))
      /\ NoDuplicates(t) /\ Elements(t) \subseteq Elements(s.tiled)
  BY <1>1, <1>2, TakeFacts DEF TilesOK
<1>4. [s EXCEPT !.capacity = c, !.tiled = Take(@, c)] = b
  BY <1>1, <1>3, SlotWithCapacity
<1> HIDE DEF t
<1>5. b \in Slots /\ TilesOK(b) /\ b.capacity = c
  <2>1. Len(t) <= c
    BY <1>2, <1>3
  <2> QED BY <1>1, <1>2, <1>3, <2>1 DEF Slots, TilesOK
<1> HIDE DEF b
<1>6. FillFreeTiles(b) \in Slots /\ FillFreeTiles(b).capacity = c
  BY <1>5, FillFacts DEF GoodSlot
<1>7. SetCapacity(m, o, c) = WithSlot(m, o, FillFreeTiles(b))
  BY <1>4, Zenon DEF SetCapacity, s
<1> QED BY <1>1, <1>6, <1>7, WithSlotFacts

\* sync_layout makes room whatever room there was.
LEMMA SyncedFacts ==
  ASSUME NEW m, Sound(m), NEW a \in Areas, theme \in {Sanitised(t, "pointer") : t \in RawThemes}
  PROVE  Sound(Synced(m, a)) /\ Roomy(Synced(m, a), a) /\ Live(Synced(m, a)) = Live(m)
<1> DEFINE c == TileLimit(ZonesOf(a, theme).apps, GapsOf(theme.metrics))
<1>1. c \in Nat
  BY ZonesFacts
<1>2. Synced(m, a) = SetCapacity(m, Screen, c)
  BY DEF Synced, ZonesOf
<1> HIDE DEF c
<1>3. Good(m) /\ FamiliesOK(m) /\ ModelTypeOK(m)
  BY DEF Sound, Good
<1>4. Good(SetCapacity(m, Screen, c))
  BY <1>1, <1>3, ScreenAssumption, SetCapacityGood
<1>5. FamiliesOK(SetCapacity(m, Screen, c))
  BY <1>3, SlotsChangeNoFamily
<1>6. /\ Screen \in DOMAIN SetCapacity(m, Screen, c).slots
      /\ SetCapacity(m, Screen, c).slots[Screen].capacity = c
  BY <1>1, <1>3, ScreenAssumption, CapacityIsSet
<1>7. Live(SetCapacity(m, Screen, c)) = Live(m)
  BY <1>3, Rearranging DEF Rearranged, Live
<1> QED BY <1>2, <1>4, <1>5, <1>6, <1>7 DEF Sound, Roomy, c

----------------------------------------------------------------------------
(* What a press is on                                                      *)

\* The greatest of some indices.
LEMMA GreatestIndex ==
  ASSUME NEW n \in Nat, NEW S \in SUBSET (1..n), S # {}
  PROVE  Max(S) \in S /\ \A j \in S : j <= Max(S)
<1> DEFINE T == {n - i : i \in S}
<1>1. PICK k \in T : \A j \in T : k <= j
  <2>1. \A i \in S : i \in 1..n /\ n - i \in Nat
    OBVIOUS
  <2>2. T \subseteq Nat /\ T # {}
    BY <2>1
  <2> HIDE DEF T
  <2> QED BY <2>2, SmallestNat
<1>2. PICK i \in S : k = n - i
  BY <1>1
<1>3. \A j \in S : i >= j
  <2> TAKE j \in S
  <2>1. n - i <= n - j /\ i \in 1..n /\ j \in 1..n
    BY <1>1, <1>2
  <2> QED BY <2>1
<1> QED BY <1>3 DEF Max

\* What a screen is made of is what it should be.
Sensible(s) ==
  /\ Good(s.windows) /\ LooksOK(s.look, Live(s.windows))
  /\ IsRect(s.area) /\ IsRect(s.zones.top_bar) /\ IsRect(s.zones.apps) /\ IsRect(s.zones.bottom_bar)
  /\ MetricsOK(s.theme.metrics) /\ s.split = EvenSplit

\* Centred: the middle of one rectangle, as far as it has one.
LEMMA CentredIsPlain ==
  ASSUME NEW size, SizeOK(size), NEW r \in AnyRect
  PROVE  Centred(size, r) \in AnyRect
<1>1. /\ size.w \in Int /\ size.h \in Int
      /\ r.x \in Int /\ r.y \in Int /\ r.w \in Int /\ r.h \in Int
  BY DEF SizeOK, AnyRect
<1>2. Quot(r.w - size.w, 2) \in Int /\ Quot(r.h - size.h, 2) \in Int
  BY <1>1 DEF Quot
<1>3. /\ Most(r.x + Quot(r.w - size.w, 2), r.x) \in Int
      /\ Most(r.y + Quot(r.h - size.h, 2), r.y) \in Int
  BY <1>1, <1>2 DEF Most
<1> QED BY <1>1, <1>3, RectIsPlain DEF Centred

\* A window that refuses its tile has a rectangle too.
LEMMA TiledIsPlain ==
  ASSUME NEW s, Sensible(s), NEW w \in Live(s.windows), NEW tile \in AnyRect
  PROVE  TiledRect(s, w, tile) \in AnyRect
<1> DEFINE l == s.look[w]
<1> DEFINE size == Size(Most(l.size.w, l.min_size.w), Most(l.size.h, l.min_size.h))
<1>1. LookOK(l)
  BY DEF Sensible, LooksOK
<1> HIDE DEF l
<1>2. SizeOK(size)
  BY <1>1 DEF LookOK, SizeOK, IsValid, Size, Most
<1>3. s.zones.apps \in AnyRect /\ s.area \in AnyRect
  BY RectIsAny DEF Sensible
<1> HIDE DEF size
<1>4. Centred(size, s.zones.apps) \in AnyRect
  BY <1>2, <1>3, CentredIsPlain
<1> QED BY <1>3, <1>4 DEF TiledRect, l, size

\* A child hangs off a parent that is shown, or off the zone.
LEMMA ChildIsPlain ==
  ASSUME NEW s, Sensible(s), NEW w \in Live(s.windows), NEW below,
         \A i \in 1..Len(below) : below[i].rect \in AnyRect,
         s.windows.windows[w].parent \in {p.window : p \in Elements(below)} \cup {NoWindow}
  PROVE  ChildRect(s, w, below) \in AnyRect
<1> DEFINE parent == s.windows.windows[w].parent
<1> DEFINE anchor == CHOOSE p \in Elements(below) : p.window = parent
<1> DEFINE l == s.look[w]
<1>1. LookOK(l)
  BY DEF Sensible, LooksOK
<1>2. ChildRect(s, w, below) =
        IF parent = NoWindow THEN Centred(l.size, s.zones.apps)
        ELSE IF l.position = << >> THEN Centred(l.size, anchor.rect)
        ELSE Rect(anchor.rect.x + l.position[1], anchor.rect.y + l.position[2],
                  l.position[3], l.position[4])
  BY DEF ChildRect
<1> HIDE DEF l
<1>3. SizeOK(l.size) /\ PlaceOK(l.position)
  BY <1>1 DEF LookOK
<1>4. CASE parent = NoWindow
  BY <1>2, <1>3, <1>4, RectIsAny, CentredIsPlain DEF Sensible
<1>5. CASE parent # NoWindow
  <2>1. \E p \in Elements(below) : p.window = parent
    BY <1>5
  <2>2. anchor \in Elements(below)
    BY <2>1
  <2> HIDE DEF anchor
  <2>3. anchor.rect \in AnyRect
    BY <2>2 DEF Elements
  <2>4. Centred(l.size, anchor.rect) \in AnyRect
    BY <1>3, <2>3, CentredIsPlain
  <2>5. ASSUME l.position # << >>
        PROVE  Rect(anchor.rect.x + l.position[1], anchor.rect.y + l.position[2],
                    l.position[3], l.position[4]) \in AnyRect
    <3> DEFINE q == l.position
    <3>1. q \in Int \X Int \X Int \X Int
      BY <1>3, <2>5 DEF PlaceOK
    <3> HIDE DEF q
    <3>2. q[1] \in Int /\ q[2] \in Int /\ q[3] \in Int /\ q[4] \in Int
      BY <3>1
    <3>3. anchor.rect.x + q[1] \in Int /\ anchor.rect.y + q[2] \in Int
      BY <2>3, <3>2 DEF AnyRect
    <3>4. Rect(anchor.rect.x + q[1], anchor.rect.y + q[2], q[3], q[4]) \in AnyRect
      BY <3>2, <3>3, RectIsPlain
    <3> QED BY <3>4 DEF q
  <2> QED BY <1>2, <1>5, <2>4, <2>5
<1> QED BY <1>4, <1>5

\* Windows on the screen are windows, each with a rectangle.
LEMMA LayoutIsLive ==
  ASSUME NEW s, Sensible(s)
  PROVE  LET placed == Layout(s)
         IN  /\ Len(placed) \in Nat /\ DOMAIN placed = 1..Len(placed)
             /\ \A i \in 1..Len(placed) : /\ placed[i].window \in Live(s.windows)
                                          /\ placed[i].rect \in AnyRect
<1> DEFINE m == s.windows
<1> DEFINE tiled == Tiled(m, Screen)
<1> DEFINE rects == Tile(s.zones.apps, Len(tiled), s.split, GapsOf(s.theme.metrics))
<1> DEFINE below == LayoutTiled(s)
<1> DEFINE n == Least(Len(tiled), Len(rects))
<1> DEFINE shown == {p.window : p \in Elements(below)}
<1> DEFINE children == {w \in Live(m) : /\ ~IsToplevel(m, w) /\ m.windows[w].output = Screen
                                        /\ m.windows[w].parent \in shown \cup {NoWindow}}
<1> DEFINE inOrder == Retain([i \in 1..m.next_id |-> i - 1], children)
<1> DEFINE over == [i \in DOMAIN inOrder |->
                      [window |-> inOrder[i], rect |-> ChildRect(s, inOrder[i], below)]]
<1>1. /\ tiled \in Seq(Nat) /\ Elements(tiled) \subseteq Live(m)
      /\ m.next_id \in Nat
  BY PlacedAreLive, ModelParts DEF Sensible, Good
<1>2. below = [i \in 1..n |-> [window |-> tiled[i], rect |-> TiledRect(s, tiled[i], rects[i])]]
  BY DEF LayoutTiled
<1>3. Layout(s) = below \o over
  BY DEF Layout, LayoutOver
<1>4. inOrder \in Seq(Nat) /\ Elements(inOrder) \subseteq children
  <2> DEFINE handles == [i \in 1..m.next_id |-> i - 1]
  <2>1. handles \in Seq(Nat)
    <3>1. handles \in [1..m.next_id -> Nat]
      BY <1>1
    <3> HIDE DEF handles
    <3> QED BY <1>1, <3>1, SeqDef
  <2> HIDE DEF handles, children
  <2>3. /\ Retain(handles, children) \in Seq(Nat)
        /\ Elements(Retain(handles, children)) = Elements(handles) \cap children
    BY <2>1, RetainFacts
  <2> QED BY <2>3 DEF handles
<1>5. n \in Nat /\ n <= Len(tiled)
  <2>1. Len(rects) \in Nat
    BY <1>1, TileCount
  <2> QED BY <1>1, <2>1 DEF Least
<1>5a. \A i \in 1..n : rects[i] \in AnyRect
  <2> DEFINE g == GapsOf(s.theme.metrics)
  <2> DEFINE wanted == Len(tiled)
  <2> DEFINE zone == s.zones.apps
  <2>1. IsRect(zone) /\ g.inner \in Int /\ g.outer \in Int /\ wanted \in Nat
    BY <1>1 DEF Sensible, MetricsOK, GapsOf, Gaps
  <2>1a. rects = Tile(zone, wanted, EvenSplit, g)
    BY DEF Sensible
  <2> HIDE DEF g, wanted, zone, rects
  <2>2. DOMAIN rects = 1..Len(rects) /\ \A i \in DOMAIN rects : rects[i] \in AnyRect
    BY <2>1, <2>1a, TilesArePlain
  <2>3. n <= Len(rects)
    <3>1. Len(rects) \in Nat
      BY <1>1, TileCount DEF rects
    <3> QED BY <1>1, <3>1 DEF Least
  <2> HIDE DEF n
  <2> QED BY <1>5, <2>2, <2>3
<1> HIDE DEF n, tiled, inOrder, rects, children
<1> DEFINE X == {p \in Elements(below) \cup Elements(over) : p.window \in Live(m) /\ p.rect \in AnyRect}
<1>6. below \in Seq(X)
  <2>1. \A i \in 1..n : tiled[i] \in Live(m)
    BY <1>1, <1>5 DEF Elements
  <2>1a. \A i \in 1..n : TiledRect(s, tiled[i], rects[i]) \in AnyRect
    BY <1>5a, <2>1, TiledIsPlain
  <2>1b. Len(below) = n /\ DOMAIN below = 1..n
         /\ \A i \in 1..n : below[i].window \in Live(m) /\ below[i].rect \in AnyRect
    BY <1>2, <1>5, <2>1, <2>1a
  <2>2. below \in [1..n -> X]
    BY <1>2, <2>1b DEF Elements
  <2> HIDE DEF below, X
  <2> QED BY <1>5, <2>2, SeqDef
<1>6a. \A i \in 1..Len(below) : below[i].rect \in AnyRect
  <2>1. \A p \in X : p.rect \in AnyRect
    OBVIOUS
  <2> HIDE DEF below, X
  <2> QED BY <1>6, <2>1
<1>7. over \in Seq(X)
  <2>1. /\ Len(inOrder) \in Nat /\ DOMAIN inOrder = 1..Len(inOrder)
        /\ \A i \in 1..Len(inOrder) : inOrder[i] \in children
    BY <1>4 DEF Elements
  <2> HIDE DEF below
  <2>2. \A i \in 1..Len(inOrder) : /\ inOrder[i] \in Live(m)
                                   /\ m.windows[inOrder[i]].parent \in shown \cup {NoWindow}
    BY <2>1 DEF children
  <2>2a. \A i \in 1..Len(inOrder) : ChildRect(s, inOrder[i], below) \in AnyRect
    BY <1>6a, <2>2, ChildIsPlain
  <2>2b. Len(over) = Len(inOrder) /\ \A i \in 1..Len(inOrder) : over[i].window \in Live(m) /\ over[i].rect \in AnyRect
    BY <2>1, <2>2, <2>2a
  <2>3. over \in [1..Len(inOrder) -> X]
    BY <2>1, <2>2b DEF Elements
  <2> HIDE DEF over, X
  <2> QED BY <2>1, <2>3, SeqDef
<1> HIDE DEF below, over
<1>8. Layout(s) \in Seq(X)
  BY <1>3, <1>6, <1>7, ConcatFacts
<1>9. \A p \in X : p.window \in Live(m) /\ p.rect \in AnyRect
  OBVIOUS
<1> HIDE DEF X
<1> QED BY <1>8, <1>9

\* hit_test: a window it finds is one, so is a chip's, so is a card.
LEMMA HitIsThere ==
  ASSUME NEW s, Sensible(s), Len(s.strip.tabs) \in Nat, NEW p
  PROVE  LET hit == HitTest(View(s), p)
         IN  /\ hit.part = "window" => hit.window \in Live(s.windows)
             /\ hit.part = "chip" => hit.chip \in 1..Len(Bar(s.windows, Screen))
             /\ \A i \in CardOf(hit) : i \in 0..(Len(s.strip.tabs) - 1)
<1> DEFINE v == View(s)
<1> DEFINE hit == HitTest(v, p)
<1> DEFINE columns == Columns(s)
<1>1. /\ v.zones = s.zones /\ v.top = TopBarLayout(s.zones.top_bar) /\ v.chips = Chips(s)
      /\ v.placed = Layout(s) /\ v.columns = columns
  BY DEF View
<1> DEFINE hits == {i \in DOMAIN v.placed : ContainsPoint(v.placed[i].rect, p)}
<1>2. hit = IF ContainsPoint(v.zones.top_bar, p) THEN HitTopBar(v, p)
            ELSE IF ContainsPoint(v.zones.bottom_bar, p) THEN HitBottomBar(v, p)
            ELSE IF hits # {} THEN OnWindow(v.placed[Max(hits)].window)
            ELSE HitCards(v, p)
  BY DEF HitTest
<1> HIDE DEF v, columns
<1>3. HitTopBar(v, p).part \in {"top_bar", "menu", "search", "clock", "status"}
  <2> DEFINE found == {item \in DOMAIN v.top : \E r \in v.top[item] : ContainsPoint(r, p)}
  <2>1. DOMAIN v.top = {"menu", "search", "clock", "status"}
    BY <1>1, TopBarFits DEF Sensible
  <2>2. found # {} => (CHOOSE item \in found : TRUE) \in {"menu", "search", "clock", "status"}
    BY <2>1
  <2>3. HitTopBar(v, p) = Part(IF found = {} THEN "top_bar" ELSE CHOOSE item \in found : TRUE)
    BY DEF HitTopBar
  <2> HIDE DEF found
  <2> QED BY <2>2, <2>3 DEF Part
<1>4. /\ HitBottomBar(v, p).part \in {"bottom_bar", "chip"}
      /\ HitBottomBar(v, p).part = "chip" => HitBottomBar(v, p).chip \in 1..Len(Bar(s.windows, Screen))
  <2> DEFINE found == {i \in DOMAIN v.chips : ContainsPoint(v.chips[i], p)}
  <2>1. DOMAIN v.chips \subseteq 1..Len(Bar(s.windows, Screen))
    <3>1. Len(Bar(s.windows, Screen)) \in Nat
      BY PlacedAreLive
    <3>2. /\ Len(v.chips) \in Nat /\ DOMAIN v.chips = 1..Len(v.chips)
          /\ Len(v.chips) <= Len(Bar(s.windows, Screen))
      BY <1>1, <3>1, BottomBarFits DEF Chips, Sensible
    <3> QED BY <3>1, <3>2
  <2>2. found # {} => (CHOOSE i \in found : TRUE) \in 1..Len(Bar(s.windows, Screen))
    BY <2>1
  <2>3. HitBottomBar(v, p) = IF found = {} THEN Part("bottom_bar") ELSE OnChip(CHOOSE i \in found : TRUE)
    BY DEF HitBottomBar
  <2> HIDE DEF found
  <2> QED BY <2>2, <2>3 DEF Part, OnChip
<1>5. hits # {} => v.placed[Max(hits)].window \in Live(s.windows)
  <2>1. /\ Len(v.placed) \in Nat /\ DOMAIN v.placed = 1..Len(v.placed)
        /\ \A i \in 1..Len(v.placed) : v.placed[i].window \in Live(s.windows)
    BY <1>1, LayoutIsLive
  <2>2. hits \in SUBSET (1..Len(v.placed))
    BY <2>1
  <2> HIDE DEF hits
  <2> QED BY <2>1, <2>2, GreatestIndex
<1>6. /\ HitCards(v, p).part \in {"new_card", "desktop", "card", "tile"}
      /\ HitCards(v, p).part \in {"card", "tile"} => HitCards(v, p).card \in 0..(Len(s.strip.tabs) - 1)
  <2> DEFINE cards == {i \in DOMAIN columns.cards : ContainsPoint(columns.cards[i], p)}
  <2> DEFINE card == CHOOSE i \in cards : TRUE
  <2> DEFINE found == {t \in DOMAIN v.tiles[card] : ContainsPoint(v.tiles[card][t], p)}
  <2>1. DOMAIN columns.cards \subseteq 0..(Len(s.strip.tabs) - 1)
    BY ColumnsFacts DEF columns, Columns, Sensible
  <2>2. cards # {} => card \in 0..(Len(s.strip.tabs) - 1)
    BY <2>1
  <2>3. HitCards(v, p) = IF \E r \in columns.add : ContainsPoint(r, p) THEN Part("new_card")
                         ELSE IF cards = {} THEN Part("desktop")
                         ELSE IF found = {} THEN OnCard(card)
                         ELSE OnCardTile(card, CHOOSE t \in found : TRUE)
    BY <1>1 DEF HitCards
  <2> HIDE DEF cards, card, found
  <2> QED BY <2>2, <2>3 DEF Part, OnCard, OnCardTile
<1> HIDE DEF hits
<1>7. CardOf(hit) = IF hit.part \in {"card", "tile"} THEN {hit.card} ELSE {}
  BY DEF CardOf
<1> HIDE DEF hit
<1>8. \/ hit.part \in {"top_bar", "menu", "search", "clock", "status", "bottom_bar", "new_card", "desktop"}
      \/ hit.part = "chip" /\ hit.chip \in 1..Len(Bar(s.windows, Screen))
      \/ hit.part = "window" /\ hit.window \in Live(s.windows)
      \/ hit.part \in {"card", "tile"} /\ hit.card \in 0..(Len(s.strip.tabs) - 1)
  BY <1>2, <1>3, <1>4, <1>5, <1>6 DEF OnWindow
<1> QED BY <1>7, <1>8 DEF hit, v

\* The screen is made of what it should be.
LEMMA ScreenIsSensible == ASSUME ScreenInv PROVE Sensible(Screenful)
<1>1. /\ Screenful.windows = windows /\ Screenful.look = look /\ Screenful.area = area
      /\ Screenful.zones = ZonesOf(area, theme) /\ Screenful.theme = theme
      /\ Screenful.split = EvenSplit
  BY DEF Screenful
<1>2. /\ IsRect(area) /\ IsRect(ZonesOf(area, theme).apps)
      /\ IsRect(ZonesOf(area, theme).top_bar) /\ IsRect(ZonesOf(area, theme).bottom_bar)
  BY ZonesFacts DEF ScreenInv
<1>3. MetricsOK(theme.metrics)
  BY ThemeFacts DEF ScreenInv
<1> QED BY <1>1, <1>2, <1>3 DEF Sensible, ScreenInv, Sound

\* position_popup: where a menu is put is a place.
LEMMA PositionsArePlaces ==
  ASSUME ScreenInv, NEW parent, NEW g \in Positioners, NEW q \in Positions(parent, g)
  PROVE  PlaceOK(q)
<1> DEFINE slid(x, w, low, extent) == Most(Least(x, low + extent - w), low)
<1>1. g.x \in Int /\ g.y \in Int /\ g.w \in Int /\ g.h \in Int
  BY PositionersAssumption
<1>2. ASSUME NEW a \in AnyRect
      PROVE  LET u == Unconstrained(g, MenuArea(a))
             IN  u.x \in Int /\ u.y \in Int /\ u.w \in Int /\ u.h \in Int
  <2> DEFINE where == MenuArea(a)
  <2>1. where.x \in Int /\ where.y \in Int /\ where.w \in Int /\ where.h \in Int
    BY DEF MenuArea, Rect, Most, AnyRect
  <2> HIDE DEF where
  <2>2. /\ slid(g.x, g.w, where.x, where.w) \in Int
        /\ slid(g.y, g.h, where.y, where.h) \in Int
    BY <1>1, <2>1 DEF Most, Least
  <2>3. Unconstrained(g, where) =
          IF ~g.slide THEN g
          ELSE [g EXCEPT !.x = slid(g.x, g.w, where.x, where.w),
                         !.y = slid(g.y, g.h, where.y, where.h)]
    BY DEF Unconstrained
  <2> HIDE DEF slid
  <2> QED BY <1>1, <2>2, <2>3, PositionersAssumption DEF where
<1> DEFINE placed == UNION {Elements(Layout(s)) : s \in {Screenful}}
<1> DEFINE anchors == {p.rect : p \in {r \in placed : r.window = parent}}
<1> DEFINE places == IF anchors = {} THEN {g} ELSE {Unconstrained(g, MenuArea(a)) : a \in anchors}
<1>3. anchors \subseteq AnyRect
  <2>1. placed = Elements(Layout(Screenful))
    OBVIOUS
  <2>2. \A i \in 1..Len(Layout(Screenful)) : Layout(Screenful)[i].rect \in AnyRect
    BY ScreenIsSensible, LayoutIsLive
  <2> HIDE DEF placed
  <2> QED BY <2>1, <2>2 DEF Elements
<1>4. q \in {<<p.x, p.y, Most(p.w, 1), Most(p.h, 1)>> : p \in places}
  BY DEF Positions
<1> HIDE DEF anchors
<1>5. \A p \in places : p.x \in Int /\ p.y \in Int /\ p.w \in Int /\ p.h \in Int
  BY <1>1, <1>2, <1>3
<1> HIDE DEF places
<1> QED BY <1>4, <1>5 DEF PlaceOK, Most

----------------------------------------------------------------------------
(* The steps                                                               *)

LEMMA LookFields ==
  ASSUME NEW l, LookOK(l)
  PROVE  /\ \A b \in BOOLEAN : LookOK([l EXCEPT !.fullscreen = b])
         /\ \A min : SizeOK(min) => LookOK([l EXCEPT !.min_size = min])
         /\ \A position : PlaceOK(position) => LookOK([l EXCEPT !.position = position])
BY DEF LookOK

LEMMA NewLookOK ==
  ASSUME NEW size, SizeOK(size), NEW position, PlaceOK(position)
  PROVE  LookOK(NewLook(size)) /\ LookOK([NewLook(size) EXCEPT !.position = position])
<1>1. SizeOK(Size(1, 1))
  BY DEF SizeOK, IsValid, Size
<1>2. PlaceOK(<< >>)
  BY DEF PlaceOK
<1>3. LookOK(NewLook(size))
  BY <1>1, <1>2 DEF LookOK, NewLook
<1> QED BY <1>3, LookFields

\* Writing one window's look.
LEMMA LookWritten ==
  ASSUME NEW looks, NEW live, LooksOK(looks, live), NEW w \in live, NEW l, LookOK(l)
  PROVE  LooksOK([looks EXCEPT ![w] = l], live)
BY DEF LooksOK

\* A handler that ends in sync_layout.
LEMMA EndsInSync ==
  ASSUME ScreenInv, NEW m, Sound(m), windows' = Synced(m, area), LooksOK(look', Live(m)),
         UNCHANGED <<area, theme, strip>>
  PROVE  ScreenInv'
<1>1. Sound(windows') /\ Live(windows') = Live(m) /\ Roomy(windows', area)
  BY SyncedFacts DEF ScreenInv
<1>2. Roomy(windows, area)'
  BY <1>1 DEF Roomy
<1> QED BY <1>1, <1>2 DEF ScreenInv

\* What rearranges the windows of a sound model leaves it sound.
LEMMA RearrangedIsSound ==
  ASSUME NEW m, Sound(m)
  PROVE  /\ \A w \in Live(m) : /\ Sound(Focus(m, w)) /\ Live(Focus(m, w)) = Live(m)
                               /\ Sound(Activate(m, w)) /\ Live(Activate(m, w)) = Live(m)
         /\ \A forward \in BOOLEAN : /\ Sound(CycleFocus(m, Screen, forward))
                                     /\ Live(CycleFocus(m, Screen, forward)) = Live(m)
<1>1. Good(m) /\ FamiliesOK(m) /\ ModelTypeOK(m)
  BY DEF Sound, Good
<1>2. ASSUME NEW w \in Live(m)
      PROVE  /\ Sound(Focus(m, w)) /\ Live(Focus(m, w)) = Live(m)
             /\ Sound(Activate(m, w)) /\ Live(Activate(m, w)) = Live(m)
  <2>1. Good(Focus(m, w))
    BY <1>1, FocusGood DEF Focus
  <2>2. Good(Activate(m, w))
    BY <1>1, ActivateGood
  <2> QED BY <1>1, <2>1, <2>2, SlotsChangeNoFamily, Rearranging DEF Sound, Rearranged, Live
<1>3. ASSUME NEW forward \in BOOLEAN
      PROVE  /\ Sound(CycleFocus(m, Screen, forward))
             /\ Live(CycleFocus(m, Screen, forward)) = Live(m)
  BY <1>1, CycleGood, SlotsChangeNoFamily, Rearranging DEF Sound, Rearranged, Live
<1> QED BY <1>2, <1>3

LEMMA FocusKeeps ==
  ASSUME ScreenInv, NEW m, Sound(m), Live(m) = Live(windows), FocusChanged(m)
  PROVE  ScreenInv'
<1>1. LooksOK(look', Live(m))
  BY DEF ScreenInv, FocusChanged
<1> QED BY <1>1, EndsInSync DEF FocusChanged

LEMMA StripKeeps ==
  ASSUME ScreenInv, NEW s, CardsOK(s), ChangeStrip(s)
  PROVE  ScreenInv'
<1>1. Roomy(windows, area)' <=> Roomy(windows, area)
  BY DEF ChangeStrip, Roomy
<1> QED BY <1>1 DEF ScreenInv, ChangeStrip, Roomy

\* A card of the strip made the active one.
LEMMA ActiveIsCard ==
  ASSUME NEW s, StripOK(s), NEW id \in Elements(s.tabs)
  PROVE  CardsOK(SetActive(s, id)) /\ ActiveTab(SetActive(s, id)) = id
<1>1. StripOK(SetActive(s, id)) /\ ActiveTab(SetActive(s, id)) = id
  BY SetActiveKeeps
<1>2. id \in Nat
  BY DEF StripOK, Strips, Elements
<1> QED BY <1>1, <1>2, NoTabAssumption DEF CardsOK, ActiveTab

LEMMA NewCardKeeps ==
  ASSUME ScreenInv, NewCard
  PROVE  ScreenInv' /\ ActiveTab(strip') = strip.next_id
<1>1. StripOK(Add(strip)) /\ strip.next_id \in Elements(Add(strip).tabs)
  BY AddKeeps DEF ScreenInv, CardsOK
<1>2. CardsOK(SetActive(Add(strip), strip.next_id))
      /\ ActiveTab(SetActive(Add(strip), strip.next_id)) = strip.next_id
  BY <1>1, ActiveIsCard
<1>3. ChangeStrip(SetActive(Add(strip), strip.next_id))
  BY DEF NewCard
<1> QED BY <1>2, <1>3, StripKeeps DEF ChangeStrip

LEMMA SlideStripKeeps ==
  ASSUME ScreenInv, SlideStrip
  PROVE  ScreenInv'
<1>1. PICK forward \in BOOLEAN : CanSlide(strip, forward) /\ ChangeStrip(Slide(strip, forward))
  BY DEF SlideStrip
<1>2. StripOK(strip) /\ strip.active \in Nat /\ Len(strip.tabs) \in Nat
  BY DEF ScreenInv, CardsOK, StripOK, Strips
<1>3. StripOK(Slide(strip, forward)) /\ Slide(strip, forward).tabs = strip.tabs
  BY <1>1, <1>2, SlideKeeps
<1>4. Slide(strip, forward).active = IF forward THEN strip.active + 1 ELSE strip.active - 1
  BY <1>2 DEF Slide, StripOK, Strips
<1>5. CardsOK(Slide(strip, forward))
  BY <1>1, <1>2, <1>3, <1>4 DEF CanSlide, CardsOK, ScreenInv
<1> QED BY <1>1, <1>5, StripKeeps

LEMMA PressKeeps ==
  ASSUME ScreenInv, NEW hit, PressOn(hit),
         hit.part = "window" => hit.window \in Live(windows),
         hit.part = "chip" => hit.chip \in 1..Len(Bar(windows, Screen)),
         \A i \in CardOf(hit) : i \in 0..(Len(strip.tabs) - 1)
  PROVE  ScreenInv'
<1>1. Sound(windows) /\ CardsOK(strip)
  BY DEF ScreenInv
<1>2. CASE hit.part = "window" /\ FocusChanged(Focus(windows, hit.window))
  BY <1>1, <1>2, RearrangedIsSound, FocusKeeps
<1>3. CASE hit.part = "chip" /\ FocusChanged(Activate(windows, Bar(windows, Screen)[hit.chip]))
  <2>1. Bar(windows, Screen)[hit.chip] \in Live(windows)
    BY <1>1, <1>3, PlacedAreLive DEF Sound, Elements
  <2> QED BY <1>1, <1>3, <2>1, RearrangedIsSound, FocusKeeps
<1>4. CASE \E i \in CardOf(hit) : ChangeStrip(SetActive(strip, strip.tabs[i + 1]))
  <2>1. PICK i \in CardOf(hit) : ChangeStrip(SetActive(strip, strip.tabs[i + 1]))
    BY <1>4
  <2>2. strip.tabs[i + 1] \in Elements(strip.tabs)
    <3>1. Len(strip.tabs) \in Nat /\ i \in 0..(Len(strip.tabs) - 1)
      BY <1>1 DEF CardsOK, StripOK, Strips
    <3>2. i + 1 \in 1..Len(strip.tabs)
      BY <3>1
    <3> QED BY <3>2 DEF Elements
  <2> QED BY <1>1, <2>1, <2>2, ActiveIsCard, StripKeeps DEF CardsOK
<1>5. CASE NewCard
  BY <1>5, NewCardKeeps
<1> QED BY <1>2, <1>3, <1>4, <1>5 DEF PressOn

LEMMA NewToplevelKeeps ==
  ASSUME ScreenInv, NewToplevel
  PROVE  ScreenInv'
<1> DEFINE id == windows.next_id
<1>1. Good(windows) /\ FamiliesOK(windows) /\ Screen \in DOMAIN windows.slots
  BY DEF ScreenInv, Sound, Roomy
<1>2. windows' = OpenToplevel(windows, Screen)
  BY DEF NewToplevel
<1>3. Sound(windows') /\ Screen \in DOMAIN windows'.slots
      /\ windows'.slots[Screen].capacity = windows.slots[Screen].capacity
  BY <1>1, <1>2, ScreenAssumption, OpenToplevelGood, OpenToplevelFamilies DEF Sound, SlotMut
<1>4. Live(windows') = Live(windows) \cup {id}
  BY <1>1, <1>2, ScreenAssumption, OpenToplevelAdds
<1>5. Roomy(windows, area)'
  BY <1>3 DEF ScreenInv, Roomy, NewToplevel
<1>6. LookOK(NewLook(Size(640, 480)))
  <2>1. SizeOK(Size(640, 480)) /\ PlaceOK(<< >>)
    BY DEF SizeOK, IsValid, Size, PlaceOK
  <2> QED BY <2>1, NewLookOK
<1>7. LooksOK(look', Live(windows'))
  BY <1>4, <1>6 DEF ScreenInv, NewToplevel, LooksOK
<1> QED BY <1>3, <1>5, <1>7 DEF ScreenInv, NewToplevel

LEMMA FullscreenKeeps ==
  ASSUME ScreenInv, ToggleFullscreen \/ RequestFullscreen
  PROVE  ScreenInv'
<1>1. Sound(windows) /\ LooksOK(look, Live(windows))
  BY DEF ScreenInv
<1>2. CASE ToggleFullscreen
  <2>1. windows.focus \in Live(windows)
    BY <1>1, <1>2 DEF ToggleFullscreen, Sound, Good, HandlesOK
  <2> DEFINE l == look[windows.focus]
  <2>2. LookOK([l EXCEPT !.fullscreen = ~@])
    <3>1. LookOK(l)
      BY <1>1, <2>1 DEF LooksOK
    <3>2. l.fullscreen \in BOOLEAN
      BY <3>1 DEF LookOK
    <3> QED BY <3>1, <3>2, LookFields
  <2>3. look' = [look EXCEPT ![windows.focus] = [l EXCEPT !.fullscreen = ~@]]
    BY <1>2 DEF ToggleFullscreen
  <2> HIDE DEF l
  <2>4. LooksOK(look', Live(windows))
    BY <1>1, <2>1, <2>2, <2>3, LookWritten
  <2> QED BY <1>1, <1>2, <2>4, EndsInSync DEF ToggleFullscreen
<1>3. CASE RequestFullscreen
  <2>1. PICK w \in Live(windows), flag \in BOOLEAN :
          /\ look' = [look EXCEPT ![w].fullscreen = flag]
          /\ windows' = Synced(windows, area) /\ UNCHANGED <<area, theme, strip>>
    BY <1>3 DEF RequestFullscreen
  <2> DEFINE l == look[w]
  <2>2. LookOK([l EXCEPT !.fullscreen = flag])
    BY <1>1, LookFields DEF LooksOK
  <2>3. look' = [look EXCEPT ![w] = [l EXCEPT !.fullscreen = flag]]
    BY <2>1
  <2> HIDE DEF l
  <2>4. LooksOK(look', Live(windows))
    BY <1>1, <2>2, <2>3, LookWritten
  <2> QED BY <1>1, <2>1, <2>4, EndsInSync
<1> QED BY <1>2, <1>3

LEMMA CommitKeeps ==
  ASSUME ScreenInv, Commit
  PROVE  ScreenInv'
<1>1. PICK w \in Live(windows), p \in Live(windows) \cup {NoWindow}, min \in MinSizes :
        /\ look' = [look EXCEPT ![w] = WithMetadata(@, min)]
        /\ windows' = Synced(AdoptAsDialog(windows, w, p), area)
        /\ UNCHANGED <<area, theme, strip>>
  BY DEF Commit
<1>2. Good(windows) /\ FamiliesOK(windows) /\ LooksOK(look, Live(windows))
  BY DEF ScreenInv, Sound
<1> DEFINE n == AdoptAsDialog(windows, w, p)
<1>3. Sound(n)
  BY <1>2, AdoptGood, AdoptFamilies DEF Sound
<1>4. Live(n) = Live(windows)
  <2>1. CASE CanAdopt(windows, w, p)
    BY <1>2, <2>1, AdoptChanges
  <2>2. CASE ~CanAdopt(windows, w, p)
    BY <2>2 DEF AdoptAsDialog
  <2> QED BY <2>1, <2>2
<1> HIDE DEF n
<1> DEFINE l == look[w]
<1>5. LookOK(WithMetadata(l, min))
  BY <1>2, SizesAssumption, LookFields DEF WithMetadata, LooksOK, SizeOK
<1>6. look' = [look EXCEPT ![w] = WithMetadata(l, min)]
  BY <1>1
<1> HIDE DEF l
<1>7. LooksOK(look', Live(windows))
  BY <1>2, <1>5, <1>6, LookWritten
<1> QED BY <1>1, <1>3, <1>4, <1>7, EndsInSync DEF n

LEMMA NewPopupKeeps ==
  ASSUME ScreenInv, NewPopup
  PROVE  ScreenInv'
<1> DEFINE id == windows.next_id
<1>0. PICK parent \in Live(windows), g \in Positioners :
        \E position \in Positions(parent, g) :
          /\ windows' = OpenChild(windows, parent, "popup")
          /\ look' = [w \in DOMAIN look \cup {windows.next_id} |->
                        IF w = windows.next_id
                        THEN [NewLook(Size(Most(g.w, 1), Most(g.h, 1))) EXCEPT !.position = position]
                        ELSE look[w]]
          /\ UNCHANGED <<area, theme, strip>>
  BY Zenon DEF NewPopup
<1>1. PICK position \in Positions(parent, g) :
        /\ windows' = OpenChild(windows, parent, "popup")
        /\ look' = [w \in DOMAIN look \cup {windows.next_id} |->
                      IF w = windows.next_id
                      THEN [NewLook(Size(Most(g.w, 1), Most(g.h, 1))) EXCEPT !.position = position]
                      ELSE look[w]]
        /\ UNCHANGED <<area, theme, strip>>
  BY <1>0
<1>2. Good(windows) /\ FamiliesOK(windows) /\ LooksOK(look, Live(windows)) /\ Roomy(windows, area)
  BY DEF ScreenInv, Sound
<1>3. Sound(windows')
  BY <1>1, <1>2, OpenChildGood, OpenChildFamilies DEF Sound
<1>4. Live(windows') = Live(windows) \cup {id} /\ windows'.slots = windows.slots
  BY <1>1, <1>2, OpenChildAdds
<1>5. Roomy(windows, area)'
  BY <1>1, <1>2, <1>4 DEF Roomy
<1> DEFINE size == Size(Most(g.w, 1), Most(g.h, 1))
<1>6. LookOK([NewLook(size) EXCEPT !.position = position])
  <2>1. SizeOK(size)
    BY PositionersAssumption DEF SizeOK, IsValid, Size, Most
  <2> HIDE DEF size
  <2>2. PlaceOK(position)
    BY PositionsArePlaces
  <2> QED BY <2>1, <2>2, NewLookOK
<1>7. LooksOK(look', Live(windows'))
  <2> DEFINE l == [NewLook(size) EXCEPT !.position = position]
  <2>1. look' = [w \in DOMAIN look \cup {id} |-> IF w = id THEN l ELSE look[w]]
    BY <1>1
  <2> HIDE DEF l
  <2>2. LookOK(l)
    BY <1>6 DEF l
  <2> QED BY <1>2, <1>4, <2>1, <2>2 DEF LooksOK
<1> QED BY <1>1, <1>3, <1>5, <1>7 DEF ScreenInv

LEMMA RepositionKeeps ==
  ASSUME ScreenInv, RepositionPopup
  PROVE  ScreenInv'
<1>0. PICK w \in Live(windows), g \in Positioners :
        \E position \in Positions(windows.windows[w].parent, g) :
          /\ look' = [look EXCEPT ![w].position = position]
          /\ UNCHANGED <<area, theme, strip, windows>>
  BY Zenon DEF RepositionPopup
<1>1. PICK position \in Positions(windows.windows[w].parent, g) :
                      /\ look' = [look EXCEPT ![w].position = position]
                      /\ UNCHANGED <<area, theme, strip, windows>>
  BY <1>0
<1>2. LooksOK(look, Live(windows)) /\ Roomy(windows, area)
  BY DEF ScreenInv
<1> DEFINE l == look[w]
<1>3. LookOK([l EXCEPT !.position = position])
  <2>1. PlaceOK(position)
    BY PositionsArePlaces
  <2> QED BY <1>2, <2>1, LookFields DEF LooksOK
<1>4. look' = [look EXCEPT ![w] = [l EXCEPT !.position = position]]
  BY <1>1
<1> HIDE DEF l
<1>5. LooksOK(look', Live(windows))
  BY <1>2, <1>3, <1>4, LookWritten
<1>6. Roomy(windows, area)'
  BY <1>1, <1>2 DEF Roomy
<1> QED BY <1>1, <1>5, <1>6 DEF ScreenInv

LEMMA CloseKeeps ==
  ASSUME ScreenInv, CloseWindow
  PROVE  ScreenInv'
<1>1. PICK w \in Live(windows) :
        /\ windows' = IF windows.windows[w].role = "popup" THEN Close(windows, w)
                                                           ELSE Synced(Close(windows, w), area)
        /\ look' = [x \in Live(Close(windows, w)) |-> look[x]]
        /\ UNCHANGED <<area, theme, strip>>
  BY DEF CloseWindow
<1> DEFINE left == Close(windows, w)
<1>2. Good(windows) /\ FamiliesOK(windows) /\ LooksOK(look, Live(windows)) /\ Roomy(windows, area)
  BY DEF ScreenInv, Sound
<1>3. Sound(left) /\ Live(left) \subseteq Live(windows)
  BY <1>2, CloseGood, CloseFamilies, CloseRemoves DEF Sound
<1>4. windows.windows[w].role = "popup" => left.slots = windows.slots
  BY <1>2, CloseChild DEF IsToplevel
<1> HIDE DEF left
<1>5. LooksOK(look', Live(left))
  BY <1>1, <1>2, <1>3 DEF LooksOK, left
<1>6. CASE windows.windows[w].role = "popup"
  <2>1. windows' = left
    BY <1>1, <1>6 DEF left
  <2>2. Roomy(windows, area)'
    BY <1>1, <1>2, <1>4, <1>6, <2>1 DEF Roomy
  <2> QED BY <1>1, <1>3, <1>5, <2>1, <2>2 DEF ScreenInv
<1>7. CASE windows.windows[w].role # "popup"
  BY <1>1, <1>3, <1>5, <1>7, EndsInSync DEF left
<1> QED BY <1>6, <1>7

\* The nested window of another size.
LEMMA ResizeKeeps ==
  ASSUME ScreenInv, Resize
  PROVE  ScreenInv'
<1>1. PICK a \in Areas : area' = a /\ windows' = Synced(windows, a) /\ UNCHANGED <<theme, strip, look>>
  BY DEF Resize
<1>2. Sound(windows') /\ Live(windows') = Live(windows) /\ Roomy(windows', a)
  BY <1>1, SyncedFacts DEF ScreenInv
<1>3. Roomy(windows, area)'
  BY <1>1, <1>2 DEF Roomy
<1> QED BY <1>1, <1>2, <1>3 DEF ScreenInv

LEMMA ScreenInitInv == Init => ScreenInv
<1> SUFFICES ASSUME Init PROVE ScreenInv
  OBVIOUS
<1>1. CardsOK(strip)
  <2>1. StripOK(EmptyStrip) /\ EmptyStrip.active = 0
    BY DEF StripOK, EmptyStrip, Strips, HandlesDistinct, NoDuplicates, Elements
  <2> DEFINE s1 == Add(EmptyStrip)
  <2> DEFINE s2 == Add(s1)
  <2> DEFINE s3 == Add(s2)
  <2> DEFINE s4 == Add(s3)
  <2>2. StripOK(s1) /\ s1.active = 0
    BY <2>1, AddKeeps
  <2> HIDE DEF s1
  <2>3. StripOK(s2) /\ s2.active = 0
    BY <2>2, AddKeeps
  <2> HIDE DEF s2
  <2>4. StripOK(s3) /\ s3.active = 0
    BY <2>3, AddKeeps
  <2> HIDE DEF s3
  <2>5. StripOK(s4) /\ s4.active = 0 /\ s3.next_id \in Elements(s4.tabs)
    BY <2>4, AddKeeps
  <2>6. strip = s4
    BY DEF Init, PlaceholderTabs, s1, s2, s3
  <2> HIDE DEF s4
  <2>7. Len(s4.tabs) > 0
    BY <2>5 DEF StripOK, Strips, Elements
  <2> QED BY <2>5, <2>6, <2>7 DEF CardsOK
<1>2. Sound(EmptyModel) /\ Live(EmptyModel) = {}
  BY EmptyIsGood DEF Sound, FamiliesOK, Live, EmptyModel
<1>3. Sound(windows) /\ Live(windows) = {} /\ Roomy(windows, area)
  BY <1>2, SyncedFacts DEF Init
<1>4. LooksOK(look, Live(windows))
  BY <1>3 DEF Init, LooksOK
<1> QED BY <1>1, <1>3, <1>4 DEF ScreenInv, Init

LEMMA ScreenNextInv == ScreenInv /\ [Next]_vars => ScreenInv'
<1> SUFFICES ASSUME ScreenInv, [Next]_vars PROVE ScreenInv'
  OBVIOUS
<1>1. CASE Resize
  BY <1>1, ResizeKeeps
<1>2. CASE NewCard
  BY <1>2, NewCardKeeps
<1>3. CASE SlideStrip
  BY <1>3, SlideStripKeeps
<1>4. CASE Cycle
  <2>1. PICK forward \in BOOLEAN : FocusChanged(CycleFocus(windows, Screen, forward))
    BY <1>4 DEF Cycle
  <2>2. Sound(CycleFocus(windows, Screen, forward))
        /\ Live(CycleFocus(windows, Screen, forward)) = Live(windows)
    BY RearrangedIsSound DEF ScreenInv
  <2> QED BY <2>1, <2>2, FocusKeeps
<1>5. CASE ToggleFullscreen \/ RequestFullscreen
  BY <1>5, FullscreenKeeps
<1>6. CASE Press
  <2>1. PICK sight \in Sights :
          \E hit \in {HitTest(sight.view, p) : p \in Probes(sight.list)} : PressOn(hit)
    BY <1>6 DEF Press
  <2>2. sight.view = View(Screenful)
    BY DEF Sights
  <2>3. PICK p : PressOn(HitTest(View(Screenful), p))
    BY <2>1, <2>2
  <2>4. /\ Screenful.windows = windows /\ Screenful.strip = strip /\ Screenful.zones = ZonesOf(area, theme)
    BY DEF Screenful
  <2>5. Good(windows) /\ Len(strip.tabs) \in Nat
    BY DEF ScreenInv, Sound, CardsOK, StripOK, Strips
  <2>6. LET hit == HitTest(View(Screenful), p)
        IN  /\ hit.part = "window" => hit.window \in Live(windows)
            /\ hit.part = "chip" => hit.chip \in 1..Len(Bar(windows, Screen))
            /\ \A i \in CardOf(hit) : i \in 0..(Len(strip.tabs) - 1)
    BY <2>4, <2>5, ScreenIsSensible, HitIsThere
  <2> QED BY <2>3, <2>6, PressKeeps
<1>7. CASE NewToplevel
  BY <1>7, NewToplevelKeeps
<1>8. CASE Commit
  BY <1>8, CommitKeeps
<1>9. CASE NewPopup
  BY <1>9, NewPopupKeeps
<1>10. CASE RepositionPopup
  BY <1>10, RepositionKeeps
<1>11. CASE CloseWindow
  BY <1>11, CloseKeeps
<1>12. CASE UNCHANGED vars
  BY <1>12 DEF vars, ScreenInv, Roomy
<1> QED BY <1>1, <1>2, <1>3, <1>4, <1>5, <1>6, <1>7, <1>8, <1>9, <1>10, <1>11, <1>12 DEF Next

\* The invariant.
LEMMA ScreenSpecInv == Spec => []ScreenInv
<1> QED BY ScreenInitInv, ScreenNextInv, PTL DEF Spec

----------------------------------------------------------------------------
(* What the screen shows                                                   *)

\* The screen's own numbers are what the geometry asks for.
LEMMA ScreenFacts ==
  ASSUME ScreenInv
  PROVE  /\ IsRect(area) /\ IsRect(Apps) /\ MetricsOK(theme.metrics)
         /\ IsRect(ZonesOf(area, theme).top_bar) /\ IsRect(ZonesOf(area, theme).bottom_bar)
         /\ strip.tabs \in Seq(Nat) /\ Len(strip.tabs) \in Nat
         /\ strip.active \in 0..(Len(strip.tabs) - 1)
         /\ Columns(Screenful) = CardColumns(Apps, theme.metrics, Len(strip.tabs), strip.active)
<1>1. /\ IsRect(area) /\ IsRect(Apps)
      /\ IsRect(ZonesOf(area, theme).top_bar) /\ IsRect(ZonesOf(area, theme).bottom_bar)
  BY ZonesFacts DEF ScreenInv, Apps
<1>2. MetricsOK(theme.metrics)
  BY ThemeFacts DEF ScreenInv
<1>3. strip.tabs \in Seq(Nat) /\ strip.active \in Nat /\ strip.active < Len(strip.tabs)
  BY DEF ScreenInv, CardsOK, StripOK, Strips
<1>4. /\ Screenful.zones = ZonesOf(area, theme) /\ Screenful.theme = theme
      /\ Screenful.strip = strip
  BY DEF Screenful
<1> QED BY <1>1, <1>2, <1>3, <1>4 DEF Columns, Apps

LEMMA TypesHold == ScreenInv => TypeOK
BY DEF ScreenInv, TypeOK, Sound, Good, CardsOK, StripOK, LooksOK, LookOK, SizeOK

LEMMA ZonesHold == ScreenInv => ZonesCoverScreen
BY ZonesFacts DEF ScreenInv, ZonesCoverScreen

LEMMA BarsHold == ScreenInv => BarPartsAreApart
<1> SUFFICES ASSUME ScreenInv PROVE BarPartsAreApart
  OBVIOUS
<1> DEFINE z == ZonesOf(area, theme)
<1> DEFINE count == Len(Bar(windows, Screen))
<1>1. count \in Nat
  BY PlacedAreLive DEF ScreenInv, Sound
<1>2. IsRect(z.top_bar) /\ IsRect(z.bottom_bar)
  BY ScreenFacts
<1>3. Chips(Screenful) = BottomBarLayout(z.bottom_bar, count)
  BY DEF Chips, Screenful
<1> HIDE DEF z, count
<1>4. LET l     == TopBarLayout(z.top_bar)
          parts == UNION {l[item] : item \in DOMAIN l}
      IN  /\ \A r \in parts : Within(r, z.top_bar)
          /\ \A r, q \in parts : r # q => Right(r) + BarGap <= q.x \/ Right(q) + BarGap <= r.x
  BY <1>2, TopBarFits
<1>5. LET chips == Chips(Screenful)
      IN  /\ Len(chips) <= count
          /\ \A i \in DOMAIN chips :
               /\ Within(chips[i], z.bottom_bar)
               /\ i > 1 => chips[i].x >= Right(chips[i - 1]) + ChipGap
  BY <1>1, <1>2, <1>3, BottomBarFits
<1> QED BY <1>4, <1>5 DEF BarPartsAreApart, z, count

LEMMA ActiveCardHolds == ScreenInv => ActiveCardIsWhole
<1> SUFFICES ASSUME ScreenInv, IsValid(Apps)
             PROVE  LET columns == Columns(Screenful)
                        m       == theme.metrics
                        count   == Len(strip.tabs)
                        x(i)    == ColumnX(Apps, m, count, strip.active, i)
                    IN  /\ strip.active \in DOMAIN columns.cards
                        /\ Within(columns.cards[strip.active], Apps)
                        /\ \A i \in DOMAIN columns.cards : columns.cards[i].w = CardWidth(Apps, m)
                        /\ x(0) > Apps.x => x(count) + CardWidth(Apps, m) <= Right(Apps)
                        /\ x(count) + CardWidth(Apps, m) < Right(Apps) => x(0) >= Apps.x
  BY DEF ActiveCardIsWhole
<1> DEFINE m == theme.metrics
<1> DEFINE count == Len(strip.tabs)
<1> DEFINE active == strip.active
<1> DEFINE width == CardWidth(Apps, m)
<1> DEFINE x(i) == ColumnX(Apps, m, count, active, i)
<1> DEFINE columns == Columns(Screenful)
<1> DEFINE shown == ShownColumns(Apps, m, count, active)
<1>1. /\ IsRect(Apps) /\ MetricsOK(m) /\ count \in Nat /\ active \in 0..(count - 1)
      /\ columns = CardColumns(Apps, m, count, active)
  BY ScreenFacts
<1> HIDE DEF m, count, active, columns
<1>2. /\ width \in 1..Apps.w /\ x(active) \in Int
      /\ Apps.x <= x(active) /\ x(active) + width <= Right(Apps)
      /\ x(0) > Apps.x => x(count) + width <= Right(Apps)
      /\ x(count) + width < Right(Apps) => x(0) >= Apps.x
  BY <1>1, StripFits
<1>3. /\ DOMAIN columns.cards = shown \ {count}
      /\ \A i \in DOMAIN columns.cards : columns.cards[i] = Rect(x(i), Apps.y, width, Apps.h)
  BY <1>1, ColumnsFacts
<1>4. active \in shown
  <2>1. x(active) + width > Apps.x /\ x(active) < Right(Apps)
    BY <1>1, <1>2 DEF IsRect, Right
  <2> QED BY <1>1, <2>1 DEF ShownColumns
<1> HIDE DEF x, width, shown
<1>5. active \in DOMAIN columns.cards
  BY <1>1, <1>3, <1>4
<1>6. Within(columns.cards[active], Apps)
  <2> DEFINE r == columns.cards[active]
  <2>1. r.x = x(active) /\ r.y = Apps.y /\ r.w = width /\ r.h = Apps.h
    BY <1>3, <1>5, RectFacts
  <2> HIDE DEF r
  <2>2. Within(r, Apps)
    BY <1>1, <1>2, <2>1 DEF Within, IsRect, Right, Bottom
  <2> QED BY <2>2 DEF r
<1>7. \A i \in DOMAIN columns.cards : columns.cards[i].w = width
  BY <1>3, RectFacts
<1> QED BY <1>2, <1>5, <1>6, <1>7 DEF m, count, active, columns, width, x

LEMMA ShortcutsHold == ScreenInv => ShortcutsStayOnCard
<1> SUFFICES ASSUME ScreenInv PROVE ShortcutsStayOnCard
  OBVIOUS
<1> DEFINE s == Screenful
<1> DEFINE m == theme.metrics
<1> DEFINE columns == Columns(s)
<1> DEFINE count == Len(strip.tabs)
<1> DEFINE line == LineHeight(theme.fonts.size_tile)
<1>1. /\ IsRect(Apps) /\ MetricsOK(m) /\ count \in Nat /\ strip.active \in 0..(count - 1)
      /\ columns = CardColumns(Apps, m, count, strip.active) /\ strip.tabs \in Seq(Nat)
  BY ScreenFacts
<1>2. line \in Int
  <2>1. theme.fonts.size_tile \in Int
    BY ThemeFacts DEF ScreenInv
  <2> QED BY <2>1 DEF LineHeight
<1>3. /\ s.strip = strip /\ s.theme = theme
      /\ s.items = [id \in 0..(strip.next_id - 1) |-> IF id < 4 THEN PlaceholderItems[id + 1] ELSE 0]
  BY DEF Screenful
<1>4. \A i \in 1..count : s.items[strip.tabs[i]] \in Nat
  <2>1. SUFFICES ASSUME NEW i \in 1..count PROVE s.items[strip.tabs[i]] \in Nat
    OBVIOUS
  <2>2. strip.tabs[i] \in Nat /\ strip.tabs[i] < strip.next_id /\ strip.next_id \in Nat
    BY <1>1, <2>1 DEF ScreenInv, CardsOK, StripOK, HandlesDistinct, Strips, Elements
  <2>3. strip.tabs[i] \in 0..(strip.next_id - 1)
    BY <2>2
  <2>4. \A id \in 0..3 : PlaceholderItems[id + 1] \in Nat
    BY DEF PlaceholderItems
  <2> DEFINE id == strip.tabs[i]
  <2>5. s.items[id] = IF id < 4 THEN PlaceholderItems[id + 1] ELSE 0
    BY <1>3, <2>3
  <2> HIDE DEF id, s
  <2>6. id \in Nat
    BY <2>2 DEF id
  <2>7. id < 4 => id \in 0..3
    BY <2>6
  <2>8. s.items[id] \in Nat
    BY <2>4, <2>5, <2>7
  <2> QED BY <2>8 DEF id
<1> HIDE DEF s, m, columns, count, line
<1>5. ASSUME NEW i \in DOMAIN columns.cards, NEW tiles,
             tiles = TilesOf(s, i, columns.cards[i]), NEW t \in DOMAIN tiles
      PROVE  LET card == columns.cards[i]
                 face == TileFace(tiles[t], line)
             IN  /\ Within(tiles[t], card) /\ Apart(tiles[t], CardHeader(card, m))
                 /\ \A u \in DOMAIN tiles : u # t => Apart(tiles[t], tiles[u])
                 /\ Within(face.icon, tiles[t])
                 /\ \A c \in face.caption : Within(c, tiles[t]) /\ Apart(c, face.icon)
  <2> DEFINE card == columns.cards[i]
  <2>1. /\ i \in 0..(count - 1) /\ IsValid(Apps)
        /\ card = Rect(ColumnX(Apps, m, count, strip.active, i), Apps.y, CardWidth(Apps, m), Apps.h)
    <3>1. /\ DOMAIN columns.cards \subseteq 0..(count - 1)
          /\ DOMAIN columns.cards # {} => IsValid(Apps)
      BY <1>1, ColumnsFacts
    <3>2. \A k \in DOMAIN columns.cards :
            columns.cards[k] = Rect(ColumnX(Apps, m, count, strip.active, k), Apps.y,
                                    CardWidth(Apps, m), Apps.h)
      BY <1>1, ColumnsFacts
    <3>3. i \in DOMAIN columns.cards
      BY <1>5
    <3> QED BY <3>1, <3>2, <3>3
  <2>2. CardWidth(Apps, m) \in Nat /\ ColumnX(Apps, m, count, strip.active, i) \in Int
    <3>1. i \in 0..count
      BY <1>1, <2>1
    <3>2. CardWidth(Apps, m) \in 1..Apps.w
          /\ \A k \in 0..count : ColumnX(Apps, m, count, strip.active, k) \in Int
      BY <1>1, <2>1, StripFits
    <3> QED BY <1>1, <3>1, <3>2 DEF IsRect
  <2>3. IsRect(card)
    BY <1>1, <2>1, <2>2, RectFacts DEF IsRect
  <2>4. i + 1 \in 1..count
    BY <1>1, <2>1
  <2>5. s.items[strip.tabs[i + 1]] \in Nat
    BY <1>4, <2>4
  <2>6. tiles = LayoutTiles(card, m, s.items[strip.tabs[i + 1]])
    BY <1>3, <1>5 DEF TilesOf, m
  <2> HIDE DEF card
  <2>7. /\ IsRect(tiles[t])
        /\ Within(tiles[t], card) /\ Apart(tiles[t], CardHeader(card, m))
        /\ \A u \in DOMAIN tiles : u # t => Apart(tiles[t], tiles[u])
    BY <1>1, <1>5, <2>3, <2>5, <2>6, CardTilesFit
  <2>8. LET face == TileFace(tiles[t], line)
        IN  /\ Within(face.icon, tiles[t])
            /\ \A c \in face.caption : Within(c, tiles[t]) /\ Apart(c, face.icon)
    BY <1>2, <2>7, FaceFits
  <2> QED BY <2>7, <2>8 DEF card
<1> QED BY <1>5 DEF ShortcutsStayOnCard, s, m, columns, line

\* Whatever the screen, the theme and the cards: bars and zones cover the
\* screen, the parts of a bar are apart, the active card is whole, shortcuts
\* stay on their card (shell.rs, every layout function of it).
THEOREM ShellAlwaysFits == Spec => []ShellFitsTheScreen
<1>1. ScreenInv => ShellFitsTheScreen
  BY TypesHold, ZonesHold, BarsHold, ActiveCardHolds, ShortcutsHold DEF ShellFitsTheScreen
<1> QED BY <1>1, ScreenSpecInv, PTL

LEMMA TilesHold == ScreenInv => TilesShareTheZone
<1> DEFINE gaps == GapsOf(theme.metrics)
<1> DEFINE tiled == Tiled(windows, Screen)
<1> DEFINE wanted == Len(tiled)
<1> DEFINE inner == Inset(Apps, gaps.outer)
<1> SUFFICES ASSUME ScreenInv, IsValid(inner) PROVE TilesShareTheZone
  BY DEF TilesShareTheZone
<1>1. IsRect(Apps) /\ gaps.inner \in Nat /\ gaps.outer \in Nat
  BY ScreenFacts DEF MetricsOK, GapsOf, Gaps
<1>2. wanted \in Nat /\ wanted <= TileLimit(Apps, gaps)
  <2>1. /\ Screen \in DOMAIN windows.slots
        /\ windows.slots[Screen].capacity = TileLimit(Apps, gaps)
    BY DEF ScreenInv, Roomy, Apps
  <2>2. TilesOK(windows.slots[Screen]) /\ tiled = windows.slots[Screen].tiled
    BY <2>1 DEF ScreenInv, Sound, Good, SlotsOK, Tiled
  <2>3. tiled \in Seq(Nat)
    BY PlacedAreLive DEF ScreenInv, Sound
  <2> QED BY <2>1, <2>2, <2>3 DEF TilesOK
<1> HIDE DEF gaps, tiled, wanted
<1>3. LET rects   == Tile(Apps, wanted, EvenSplit, gaps)
          near(r) == IF IsVertical(Apps) THEN r.y ELSE r.x
          far(r)  == IF IsVertical(Apps) THEN Bottom(r) ELSE Right(r)
      IN  /\ Len(rects) = wanted /\ DOMAIN rects = 1..wanted
          /\ \A i \in 1..wanted :
               /\ Within(rects[i], inner) /\ IsValid(rects[i])
               /\ wanted > 1 => far(rects[i]) - near(rects[i]) >= MinTileExtent
               /\ near(rects[i]) = IF i = 1 THEN near(inner) ELSE far(rects[i - 1]) + gaps.inner
               /\ i = wanted => far(rects[i]) = far(inner)
               /\ \A j \in 1..wanted : i # j => Apart(rects[i], rects[j])
  BY <1>1, <1>2, TilesFit
<1> QED BY <1>3, Zenon DEF TilesShareTheZone, gaps, tiled, wanted

\* Every window that holds a tile is given one, big enough and inside the
\* zone, and the tiles share it out (layout.rs tile, window.rs layout, and
\* sync_layout, which keeps the tile limit that of the zone).
THEOREM TilesAlwaysShare == Spec => []TilesShareTheZone
<1> QED BY TilesHold, ScreenSpecInv, PTL

----------------------------------------------------------------------------
(* How the strip moves                                                     *)

\* A slide is to a neighbour, and the strip follows by a column at most.
LEMMA SlideMoves ==
  ASSUME ScreenInv, SlideStrip
  PROVE  AbsDiff(StripOffset(Apps, theme.metrics, Len(strip'.tabs), strip'.active),
                 StripOffset(Apps, theme.metrics, Len(strip.tabs), strip.active))
           <= CardWidth(Apps, theme.metrics) + theme.metrics.card_gap
<1>1. PICK forward \in BOOLEAN : CanSlide(strip, forward) /\ strip' = Slide(strip, forward)
  BY DEF SlideStrip, ChangeStrip
<1>2. StripOK(strip) /\ strip.active \in Nat
  BY DEF ScreenInv, CardsOK, StripOK, Strips
<1>3. strip'.tabs = strip.tabs
  BY <1>1, <1>2, SlideKeeps
<1>4. strip'.active = IF forward THEN strip.active + 1 ELSE strip.active - 1
  BY <1>1, <1>2 DEF Slide, StripOK, Strips
<1>5. IsRect(Apps) /\ MetricsOK(theme.metrics) /\ Len(strip.tabs) \in Nat
  BY ScreenFacts
<1>6. CASE forward
  BY <1>2, <1>3, <1>4, <1>5, <1>6, OffsetMoves
<1>7. CASE ~forward
  <2>1. strip'.active \in Nat /\ strip.active = strip'.active + 1
    BY <1>1, <1>2, <1>4, <1>7 DEF CanSlide
  <2> QED BY <1>3, <1>5, <2>1, OffsetMoves
<1> QED BY <1>6, <1>7

\* Only the new card makes the strip longer.
LEMMA OnlyNewCardAdds ==
  ASSUME ScreenInv, [Next]_vars
  PROVE  NewCard \/ strip'.tabs = strip.tabs
<1>1. StripOK(strip)
  BY DEF ScreenInv, CardsOK
<1>2. CASE SlideStrip
  BY <1>1, <1>2, SlideKeeps DEF SlideStrip, ChangeStrip
<1>3. CASE Press
  <2>1. PICK hit : PressOn(hit)
    BY <1>3 DEF Press
  <2>2. CASE NewCard
    BY <2>2
  <2>3. CASE \E i \in CardOf(hit) : ChangeStrip(SetActive(strip, strip.tabs[i + 1]))
    BY <2>3 DEF ChangeStrip, SetActive
  <2>4. CASE strip' = strip
    BY <2>4
  <2> QED BY <2>1, <2>2, <2>3, <2>4 DEF PressOn, FocusChanged
<1>4. CASE NewCard
  BY <1>4
<1>5. CASE strip' = strip
  BY <1>5
<1>6. Resize \/ Cycle \/ ToggleFullscreen \/ NewToplevel \/ Commit \/ RequestFullscreen
        \/ NewPopup \/ RepositionPopup \/ CloseWindow => strip' = strip
  BY DEF Resize, Cycle, FocusChanged, ToggleFullscreen, NewToplevel, Commit, RequestFullscreen,
         NewPopup, RepositionPopup, CloseWindow
<1> QED BY <1>2, <1>3, <1>4, <1>5, <1>6 DEF Next, vars

\* A new card is at once the active one, and the slider moves the strip by at
\* most one column (input.rs new_card and slide, shell.rs strip_offset).
THEOREM StripAlwaysFollows == Spec => StripMovesByOneColumn
<1> DEFINE Step ==
      LET count(s)  == Len(s.tabs)
          offset(s) == StripOffset(Apps, theme.metrics, count(s), s.active)
      IN  area' = area =>
          /\ count(strip') > count(strip) => ActiveTab(strip') = strip.next_id
          /\ SlideStrip => AbsDiff(offset(strip'), offset(strip))
                             <= CardWidth(Apps, theme.metrics) + theme.metrics.card_gap
<1>1. ASSUME ScreenInv, [Next]_vars PROVE [Step]_vars
  <2>1. Len(strip'.tabs) > Len(strip.tabs) => ActiveTab(strip') = strip.next_id
    <3>1. Len(strip.tabs) \in Nat
      BY <1>1, ScreenFacts
    <3>2. CASE NewCard
      BY <1>1, <3>2, NewCardKeeps
    <3>3. CASE strip'.tabs = strip.tabs
      BY <3>1, <3>3
    <3> QED BY <1>1, <3>2, <3>3, OnlyNewCardAdds
  <2>2. SlideStrip => AbsDiff(StripOffset(Apps, theme.metrics, Len(strip'.tabs), strip'.active),
                              StripOffset(Apps, theme.metrics, Len(strip.tabs), strip.active))
                        <= CardWidth(Apps, theme.metrics) + theme.metrics.card_gap
    BY <1>1, SlideMoves
  <2> QED BY <2>1, <2>2
<1>2. [][Step]_vars => StripMovesByOneColumn
  BY PTL DEF StripMovesByOneColumn
<1>3. ScreenInv /\ [Next]_vars => [Step]_vars
  BY <1>1
<1> HIDE DEF Step
<1> QED BY <1>2, <1>3, ScreenSpecInv, PTL DEF Spec

----------------------------------------------------------------------------
(* What is seen at a point                                                 *)

\* What a press can be on, and what is painted for it.
Places == {"desktop", "new_card", "top_bar", "menu", "search", "clock", "status", "bottom_bar"}

Hits == [part : Places] \cup [part : {"window"}, window : Nat] \cup [part : {"chip"}, chip : Nat]
          \cup [part : {"card"}, card : Nat] \cup [part : {"tile"}, card : Nat, tile : Nat]

Painting == [hit : Hits, rect : AnyRect]

LEMMA HitsAreHits ==
  /\ \A name \in Places : Part(name) \in Hits
  /\ \A n \in Nat : OnWindow(n) \in Hits /\ OnChip(n) \in Hits /\ OnCard(n) \in Hits
  /\ \A n \in Nat, k \in Nat : OnCardTile(n, k) \in Hits
<1>1. ASSUME NEW name \in Places PROVE Part(name) \in [part : Places]
  BY DEF Part
<1>2. ASSUME NEW n \in Nat
      PROVE  /\ OnWindow(n) \in [part : {"window"}, window : Nat] /\ OnChip(n) \in [part : {"chip"}, chip : Nat]
             /\ OnCard(n) \in [part : {"card"}, card : Nat]
  BY DEF OnWindow, OnChip, OnCard
<1>3. ASSUME NEW n \in Nat, NEW k \in Nat
      PROVE  OnCardTile(n, k) \in [part : {"tile"}, card : Nat, tile : Nat]
  BY DEF OnCardTile
<1> QED BY <1>1, <1>2, <1>3 DEF Hits

\* Nothing but h is painted at p, and h is what was painted there last.
Only(l, p, h) == \A i \in 1..Len(l) : ContainsPoint(l[i].rect, p) => l[i].hit = h

Shows(l, p, h) ==
  \E i \in 1..Len(l) :
    /\ ContainsPoint(l[i].rect, p) /\ l[i].hit = h
    /\ \A j \in 1..Len(l) : i < j /\ ContainsPoint(l[j].rect, p) => l[j].hit = h

LEMMA ShownIsSeen ==
  ASSUME NEW l \in Seq(Painting), NEW p, NEW h, Shows(l, p, h)
  PROVE  Seen(l, p) = h
<1> DEFINE S == {i \in DOMAIN l : ContainsPoint(l[i].rect, p)}
<1>1. DOMAIN l = 1..Len(l) /\ Len(l) \in Nat
  OBVIOUS
<1>2. PICK i \in 1..Len(l) :
        /\ ContainsPoint(l[i].rect, p) /\ l[i].hit = h
        /\ \A j \in 1..Len(l) : i < j /\ ContainsPoint(l[j].rect, p) => l[j].hit = h
  BY DEF Shows
<1>3. S \in SUBSET (1..Len(l)) /\ i \in S
  BY <1>1, <1>2
<1> HIDE DEF S
<1>4. Max(S) \in S /\ \A j \in S : Max(S) >= j
  BY <1>1, <1>3, GreatestIndex
<1>5. Max(S) \in 1..Len(l) /\ (Max(S) = i \/ i < Max(S))
  <2>1. i <= Max(S) /\ Max(S) \in 1..Len(l)
    BY <1>3, <1>4
  <2> QED BY <1>1, <2>1
<1>6. l[Max(S)].hit = h
  BY <1>1, <1>2, <1>4, <1>5 DEF S
<1> QED BY <1>6 DEF Seen, S

LEMMA AfterAnother ==
  ASSUME NEW l \in Seq(Painting), NEW k \in Seq(Painting), NEW p, NEW h
  PROVE  /\ l \o k \in Seq(Painting)
         /\ Only(l, p, h) /\ Only(k, p, h) => Only(l \o k, p, h)
         /\ Shows(l, p, h) /\ Only(k, p, h) => Shows(l \o k, p, h)
         /\ Shows(k, p, h) => Shows(l \o k, p, h)
<1> DEFINE both == l \o k
<1>1. both \in Seq(Painting) /\ Len(both) = Len(l) + Len(k)
  OBVIOUS
<1>2. \A i \in 1..Len(both) : both[i] = IF i <= Len(l) THEN l[i] ELSE k[i - Len(l)]
  OBVIOUS
<1>3. Len(l) \in Nat /\ Len(k) \in Nat
  OBVIOUS
<1> HIDE DEF both
<1>4. ASSUME Only(l, p, h), Only(k, p, h) PROVE Only(both, p, h)
  <2> SUFFICES ASSUME NEW i \in 1..Len(both), ContainsPoint(both[i].rect, p)
               PROVE  both[i].hit = h
    BY DEF Only
  <2>1. CASE i <= Len(l)
    BY <1>1, <1>2, <1>3, <1>4, <2>1 DEF Only
  <2>2. CASE ~(i <= Len(l))
    <3>1. i - Len(l) \in 1..Len(k)
      BY <1>1, <1>3, <2>2
    <3> QED BY <1>2, <1>4, <2>2, <3>1 DEF Only
  <2> QED BY <2>1, <2>2
<1>5. ASSUME Shows(l, p, h), Only(k, p, h) PROVE Shows(both, p, h)
  <2>1. PICK i \in 1..Len(l) :
          /\ ContainsPoint(l[i].rect, p) /\ l[i].hit = h
          /\ \A j \in 1..Len(l) : i < j /\ ContainsPoint(l[j].rect, p) => l[j].hit = h
    BY <1>5 DEF Shows
  <2>2. i \in 1..Len(both) /\ both[i] = l[i]
    BY <1>1, <1>2, <1>3
  <2>3. ASSUME NEW j \in 1..Len(both), i < j, ContainsPoint(both[j].rect, p) PROVE both[j].hit = h
    <3>1. CASE j <= Len(l)
      BY <1>1, <1>2, <1>3, <2>1, <2>3, <3>1
    <3>2. CASE ~(j <= Len(l))
      <4>1. j - Len(l) \in 1..Len(k)
        BY <1>1, <1>3, <3>2
      <4> QED BY <1>2, <1>5, <2>3, <3>2, <4>1 DEF Only
    <3> QED BY <3>1, <3>2
  <2> QED BY <2>1, <2>2, <2>3 DEF Shows
<1>6. ASSUME Shows(k, p, h) PROVE Shows(both, p, h)
  <2>1. PICK i \in 1..Len(k) :
          /\ ContainsPoint(k[i].rect, p) /\ k[i].hit = h
          /\ \A j \in 1..Len(k) : i < j /\ ContainsPoint(k[j].rect, p) => k[j].hit = h
    BY <1>6 DEF Shows
  <2> DEFINE n == i + Len(l)
  <2>2. n \in 1..Len(both) /\ both[n] = k[i]
    BY <1>1, <1>2, <1>3
  <2>3. ASSUME NEW j \in 1..Len(both), n < j, ContainsPoint(both[j].rect, p) PROVE both[j].hit = h
    <3>1. j - Len(l) \in 1..Len(k) /\ i < j - Len(l) /\ both[j] = k[j - Len(l)]
      BY <1>1, <1>2, <1>3, <2>3
    <3> QED BY <2>1, <2>3, <3>1
  <2> HIDE DEF n
  <2> QED BY <2>1, <2>2, <2>3 DEF Shows
<1> QED BY <1>1, <1>4, <1>5, <1>6 DEF both

\* An element by itself.
LEMMA OneIsShown ==
  ASSUME NEW e \in Painting, NEW p, NEW h
  PROVE  /\ <<e>> \in Seq(Painting)
         /\ (ContainsPoint(e.rect, p) => e.hit = h) => Only(<<e>>, p, h)
         /\ ContainsPoint(e.rect, p) /\ e.hit = h => Shows(<<e>>, p, h)
<1>1. <<e>> \in Seq(Painting) /\ Len(<<e>>) = 1 /\ <<e>>[1] = e /\ 1..1 = {1}
  OBVIOUS
<1> DEFINE l == <<e>>
<1> HIDE DEF l
<1>2. l \in Seq(Painting) /\ Len(l) = 1 /\ l[1] = e
  BY <1>1 DEF l
<1>3. (ContainsPoint(e.rect, p) => e.hit = h) => Only(l, p, h)
  BY <1>1, <1>2 DEF Only
<1>4. ContainsPoint(e.rect, p) /\ e.hit = h => Shows(l, p, h)
  BY <1>1, <1>2 DEF Shows
<1> QED BY <1>2, <1>3, <1>4 DEF l

LEMMA NothingIsShown ==
  ASSUME NEW p, NEW h
  PROVE  << >> \in Seq(Painting) /\ Only(<< >>, p, h)
BY DEF Only

\* push: a rectangle, if it has an inside.
LEMMA PushShows ==
  ASSUME NEW hit \in Hits, NEW r \in AnyRect, NEW p, NEW h
  PROVE  /\ Push(hit, r) \in Seq(Painting)
         /\ (ContainsPoint(r, p) => hit = h) => Only(Push(hit, r), p, h)
         /\ p.x \in Int /\ p.y \in Int /\ ContainsPoint(r, p) /\ hit = h => Shows(Push(hit, r), p, h)
<1> DEFINE e == [hit |-> hit, rect |-> r]
<1>1. e \in Painting /\ e.hit = hit /\ e.rect = r
  BY DEF Painting
<1> HIDE DEF e
<1>2. Push(hit, r) = IF r.w > 0 /\ r.h > 0 THEN <<e>> ELSE << >>
  BY DEF Push, e
<1>3. p.x \in Int /\ p.y \in Int /\ ContainsPoint(r, p) => r.w > 0 /\ r.h > 0
  BY DEF ContainsPoint, Right, Bottom, AnyRect
<1> QED BY <1>1, <1>2, <1>3, OneIsShown, NothingIsShown

\* What is painted piece by piece.
LEMMA PiecesShow ==
  ASSUME NEW n \in Nat, NEW f \in [1..n -> Seq(Painting)], NEW p, NEW h
  PROVE  /\ FlattenSeq(f) \in Seq(Painting)
         /\ (\A i \in 1..n : Only(f[i], p, h)) => Only(FlattenSeq(f), p, h)
         /\ \A k \in 1..n : Shows(f[k], p, h) /\ (\A i \in 1..n : k < i => Only(f[i], p, h))
                              => Shows(FlattenSeq(f), p, h)
<1>1. Len(f) = n
  <2>1. f \in Seq(Seq(Painting))
    BY SeqDef
  <2> QED BY <2>1
<1>2. CASE n = 0
  <2>1. f = << >>
    BY <1>2
  <2>2. FlattenSeq(f) = << >>
    BY <1>1, <1>2, <2>1 DEF FlattenSeq
  <2> QED BY <1>2, <2>2, NothingIsShown
<1>3. CASE n # 0
  <2>1. n \in Nat \ {0}
    BY <1>3
  <2>0. \E g : /\ g[1] = f[1] /\ \A i \in 1..n : i # 1 => g[i] = g[i - 1] \o f[i]
              /\ FlattenSeq(f) = g[n]
    BY <1>1, <2>1, FlattenStep, Zenon
  <2>1a. PICK g : /\ g[1] = f[1] /\ \A i \in 1..n : i # 1 => g[i] = g[i - 1] \o f[i]
                 /\ FlattenSeq(f) = g[n]
    BY <2>0
  <2> DEFINE Good3(m) ==
        /\ g[m] \in Seq(Painting)
        /\ (\A i \in 1..m : Only(f[i], p, h)) => Only(g[m], p, h)
        /\ \A k \in 1..m : Shows(f[k], p, h) /\ (\A i \in 1..m : k < i => Only(f[i], p, h))
                             => Shows(g[m], p, h)
  <2> DEFINE T == {m \in Nat : 0 < m /\ m <= n => Good3(m)}
  <2>2. 0 \in T
    OBVIOUS
  <2>3. ASSUME NEW m \in Nat, m \in T PROVE m + 1 \in T
    <3> SUFFICES ASSUME m + 1 <= n PROVE Good3(m + 1)
      OBVIOUS
    <3>1. f[m + 1] \in Seq(Painting) /\ m + 1 \in 1..n
      OBVIOUS
    <3>2. CASE m = 0
      <4>1. g[m + 1] = f[m + 1] /\ 1..(m + 1) = {m + 1}
        BY <2>1a, <3>2
      <4> QED BY <3>1, <4>1
    <3>3. CASE m # 0
      <4>1. Good3(m)
        BY <2>3, <3>3
      <4>2. g[m + 1] = g[m] \o f[m + 1]
        <5>1. m + 1 # 1 /\ (m + 1) - 1 = m
          BY <3>3
        <5> QED BY <2>1a, <3>1, <5>1
      <4>3. 1..(m + 1) = 1..m \cup {m + 1} /\ \A i \in 1..m : i < m + 1 /\ ~(m + 1 < i)
        OBVIOUS
      <4>4. g[m + 1] \in Seq(Painting)
        BY <3>1, <4>1, <4>2, AfterAnother
      <4>5. ASSUME \A i \in 1..(m + 1) : Only(f[i], p, h) PROVE Only(g[m + 1], p, h)
        BY <3>1, <4>1, <4>2, <4>3, <4>5, AfterAnother
      <4>6. ASSUME NEW k \in 1..(m + 1), Shows(f[k], p, h), \A i \in 1..(m + 1) : k < i => Only(f[i], p, h)
            PROVE  Shows(g[m + 1], p, h)
        <5>1. CASE k = m + 1
          BY <3>1, <4>1, <4>2, <4>6, <5>1, AfterAnother
        <5>2. CASE k \in 1..m
          <6>1. Shows(g[m], p, h) /\ Only(f[m + 1], p, h)
            BY <4>1, <4>3, <4>6, <5>2
          <6> QED BY <3>1, <4>1, <4>2, <6>1, AfterAnother
        <5> QED BY <4>3, <5>1, <5>2
      <4> QED BY <4>4, <4>5, <4>6
    <3> QED BY <3>2, <3>3
  <2>4. Nat \subseteq T
    <3> HIDE DEF T
    <3> QED BY <2>2, <2>3, SetInduction
  <2>5. Good3(n)
    BY <1>3, <2>4
  <2> QED BY <2>1a, <2>5
<1> QED BY <1>2, <1>3

\* push for each of some rectangles.
LEMMA PushAllShows ==
  ASSUME NEW hit \in Hits, NEW rs \in SUBSET AnyRect, IsFiniteSet(rs), NEW p, NEW h
  PROVE  /\ PushAll(hit, rs) \in Seq(Painting)
         /\ (\A r \in rs : ContainsPoint(r, p) => hit = h) => Only(PushAll(hit, rs), p, h)
         /\ p.x \in Int /\ p.y \in Int /\ hit = h /\ (\E r \in rs : ContainsPoint(r, p))
              => Shows(PushAll(hit, rs), p, h)
<1> DEFINE seq == SetToSeq(rs)
<1> DEFINE n == Cardinality(rs)
<1>1. n \in Nat /\ \E f \in [1..n -> rs] : IsInjective(f) /\ \A r \in rs : \E i \in 1..n : f[i] = r
  <2>1. n \in Nat /\ ExistsBijection(1..n, rs)
    BY FS_CardinalityType
  <2>2. PICK f \in Bijection(1..n, rs) : TRUE
    BY <2>1 DEF ExistsBijection
  <2>3. f \in [1..n -> rs] /\ (\A a, b \in 1..n : f[a] = f[b] => a = b)
        /\ \A r \in rs : \E i \in 1..n : f[i] = r
    BY <2>2 DEF Bijection, Injection, Surjection, IsInjective
  <2> QED BY <2>1, <2>3 DEF IsInjective
<1>2. seq \in [1..n -> rs] /\ IsInjective(seq)
  BY <1>1 DEF SetToSeq
<1> HIDE DEF seq
<1>3. \A r \in rs : \E i \in 1..n : seq[i] = r
  <2>1. seq \in Bijection(1..n, rs)
    <3>1. IsFiniteSet(1..n) /\ Cardinality(1..n) = n
      BY <1>1, FS_Interval
    <3>2. seq \in Injection(1..n, rs)
      BY <1>2 DEF Injection, IsInjective
    <3>3. seq \in Surjection(1..n, rs)
      BY <3>1, <3>2, FS_Injection
    <3> QED BY <3>2, <3>3 DEF Bijection
  <2> QED BY <2>1 DEF Bijection, Surjection
<1>4. seq \in [1..n -> AnyRect]
  BY <1>2
<1> DEFINE f == [i \in 1..n |-> Push(hit, seq[i])]
<1>5. PushAll(hit, rs) = FlattenSeq(f)
  <2>1. DOMAIN seq = 1..n
    BY <1>4
  <2> QED BY <2>1 DEF PushAll, seq
<1>6. f \in [1..n -> Seq(Painting)]
  BY <1>4, PushShows
<1>7. \A i \in 1..n : f[i] = Push(hit, seq[i])
  OBVIOUS
<1> HIDE DEF f, n
<1>8. PushAll(hit, rs) \in Seq(Painting)
  BY <1>1, <1>5, <1>6, PiecesShow
<1>9. ASSUME \A r \in rs : ContainsPoint(r, p) => hit = h PROVE Only(PushAll(hit, rs), p, h)
  <2>1. \A i \in 1..n : Only(f[i], p, h)
    BY <1>2, <1>4, <1>7, <1>9, PushShows
  <2> QED BY <1>1, <1>5, <1>6, <2>1, PiecesShow
<1>10. ASSUME p.x \in Int, p.y \in Int, hit = h, NEW r \in rs, ContainsPoint(r, p)
       PROVE  Shows(PushAll(hit, rs), p, h)
  <2>1. PICK k \in 1..n : seq[k] = r
    BY <1>3
  <2>2. Shows(f[k], p, h)
    BY <1>7, <1>10, <2>1, PushShows
  <2>3. \A i \in 1..n : Only(f[i], p, h)
    BY <1>4, <1>7, <1>10, PushShows
  <2> QED BY <1>1, <1>5, <1>6, <2>2, <2>3, PiecesShow
<1> QED BY <1>8, <1>9, <1>10

----------------------------------------------------------------------------
(* What an outline shows                                                   *)

\* Sets of a few elements.
LEMMA FewAreFinite ==
  /\ IsFiniteSet({})
  /\ \A a : IsFiniteSet({a})
  /\ \A a, b : IsFiniteSet({a, b})
  /\ \A a, b, c, d : IsFiniteSet({a, b, c, d})
<1>1. IsFiniteSet({})
  BY FS_EmptySet
<1>2. ASSUME NEW S, IsFiniteSet(S), NEW x PROVE IsFiniteSet(S \cup {x})
  BY <1>2, FS_AddElement
<1>3. ASSUME NEW a, NEW b PROVE IsFiniteSet({a}) /\ IsFiniteSet({a, b})
  <2>1. {a} = {} \cup {a} /\ {a, b} = {a} \cup {b}
    OBVIOUS
  <2>2. IsFiniteSet({} \cup {a})
    BY <1>1, <1>2
  <2>3. IsFiniteSet({a} \cup {b})
    BY <1>2, <2>1, <2>2
  <2> QED BY <2>1, <2>2, <2>3
<1>4. ASSUME NEW a, NEW b, NEW c, NEW d PROVE IsFiniteSet({a, b, c, d})
  <2>1. {a, b, c, d} = ({a, b} \cup {c}) \cup {d}
    OBVIOUS
  <2>2. IsFiniteSet({a, b})
    BY <1>3
  <2>3. IsFiniteSet({a, b} \cup {c})
    BY <1>2, <2>2
  <2>4. IsFiniteSet(({a, b} \cup {c}) \cup {d})
    BY <1>2, <2>3
  <2> QED BY <2>1, <2>4
<1> QED BY <1>1, <1>3, <1>4

\* The squares of the menu's mark stay on the menu, the bars of the plus and a
\* card's name between the sides of their column.
LEMMA MenuIconFits ==
  ASSUME NEW r \in AnyRect
  PROVE  /\ MenuIcon(r) \in SUBSET AnyRect /\ IsFiniteSet(MenuIcon(r))
         /\ \A q \in MenuIcon(r) : Within(q, r)
<1> DEFINE x == r.x + Quot(r.w - MenuIconSide, 2)
<1> DEFINE y == r.y + Quot(r.h - MenuIconSide, 2)
<1> DEFINE sq == (MenuIconSide - MenuIconGap) \div 2
<1> DEFINE far == sq + MenuIconGap
<1> DEFINE squares == {Rect(x + dx, y + dy, sq, sq) : dx \in {0, far}, dy \in {0, far}}
<1>1. MenuIcon(r) = IF r.w < MenuIconSide \/ r.h < MenuIconSide THEN {} ELSE squares
  BY DEF MenuIcon
<1>1a. sq = 10 /\ far = 14
  BY DEF MenuIconSide, MenuIconGap
<1> HIDE DEF sq, far
<1> DEFINE four == {Rect(x, y, 10, 10), Rect(x, y + 14, 10, 10),
                    Rect(x + 14, y, 10, 10), Rect(x + 14, y + 14, 10, 10)}
<1>1b. squares = four
  <2>1. x \in Int /\ y \in Int
    BY DEF AnyRect, Quot, MenuIconSide
  <2>2. x + 0 = x /\ y + 0 = y
    BY <2>1
  <2> HIDE DEF x, y
  <2>3. squares = {Rect(x + 0, y + 0, sq, sq), Rect(x + 0, y + far, sq, sq),
                   Rect(x + far, y + 0, sq, sq), Rect(x + far, y + far, sq, sq)}
    OBVIOUS
  <2> QED BY <1>1a, <2>2, <2>3
<1> HIDE DEF squares
<1>2. IsFiniteSet({}) /\ IsFiniteSet(four)
  <2> HIDE DEF x, y
  <2> QED BY FewAreFinite
<1>3. CASE r.w < MenuIconSide \/ r.h < MenuIconSide
  BY <1>1, <1>2, <1>3
<1>4. CASE ~(r.w < MenuIconSide \/ r.h < MenuIconSide)
  <2>1. /\ x \in Int /\ y \in Int
        /\ r.x <= x /\ x + 24 <= r.x + r.w /\ r.y <= y /\ y + 24 <= r.y + r.h
    BY <1>4 DEF AnyRect, Quot, MenuIconSide
  <2> HIDE DEF x, y
  <2>2. \A q \in four : q \in AnyRect /\ Within(q, r)
    BY <2>1 DEF Rect, AnyRect, Within, Right, Bottom
  <2> HIDE DEF four
  <2> QED BY <1>1, <1>1b, <1>2, <1>4, <2>2
<1> QED BY <1>3, <1>4

\* Between the sides of a rectangle, and no higher.
Beside(q, r) == r.x <= q.x /\ Right(q) <= Right(r)

LEMMA PlusFits ==
  ASSUME NEW r, IsRect(r), NEW m, MetricsOK(m)
  PROVE  /\ PlusMark(r, m) \in SUBSET AnyRect /\ IsFiniteSet(PlusMark(r, m))
         /\ \A q \in PlusMark(r, m) : Beside(q, r)
<1> DEFINE head == CardHeader(r, m)
<1> DEFINE body == Rect(r.x, Bottom(head), r.w, Bottom(r) - Bottom(head))
<1> DEFINE x == body.x + Quot(body.w - PlusSide, 2)
<1> DEFINE y == body.y + Most(Quot(body.h, 3) - PlusSide \div 2, 0)
<1> DEFINE off == (PlusSide - PlusBar) \div 2
<1> DEFINE bars == {Rect(x, y + off, PlusSide, PlusBar), Rect(x + off, y, PlusBar, PlusSide)}
<1>1. PlusMark(r, m) = IF body.w < PlusSide \/ body.h < PlusSide THEN {} ELSE bars
  BY DEF PlusMark
<1>2. IsFiniteSet({}) /\ IsFiniteSet(bars)
  <2> HIDE DEF x, y, off
  <2> QED BY FewAreFinite
<1>3. /\ body.x = r.x /\ body.w = r.w /\ body.y \in Int /\ body.h \in Int
      /\ r.x \in Int /\ r.w \in Nat
  <2>1. Bottom(head) \in Int /\ Bottom(r) \in Int
    BY DEF CardHeader, Bottom, Rect, IsRect, MetricsOK, Most
  <2> HIDE DEF head
  <2> QED BY <2>1 DEF Rect, IsRect
<1> HIDE DEF body
<1>4. ASSUME ~(body.w < PlusSide \/ body.h < PlusSide)
      PROVE  \A q \in bars : q \in AnyRect /\ Beside(q, r)
  <2>1. off = 16 /\ PlusSide = 40 /\ PlusBar = 8
    BY DEF PlusSide, PlusBar
  <2>2. x \in Int /\ r.x <= x /\ x + 40 <= r.x + r.w
    BY <1>3, <1>4 DEF Quot, PlusSide
  <2>3. y \in Int
    BY <1>3 DEF Quot, PlusSide, Most
  <2> HIDE DEF x, y, off
  <2>4. Rect(x, y + off, PlusSide, PlusBar) \in AnyRect /\ Rect(x + off, y, PlusBar, PlusSide) \in AnyRect
    BY <2>1, <2>2, <2>3, RectIsPlain
  <2>5. Beside(Rect(x, y + off, PlusSide, PlusBar), r) /\ Beside(Rect(x + off, y, PlusBar, PlusSide), r)
    BY <1>3, <2>1, <2>2 DEF Beside, Rect, Right
  <2> QED BY <2>4, <2>5
<1> HIDE DEF bars
<1> QED BY <1>1, <1>2, <1>4

LEMMA TitleFits ==
  ASSUME NEW r, IsRect(r), NEW m, MetricsOK(m), NEW line \in Int
  PROVE  /\ CardTitle(r, m, line) \in SUBSET AnyRect /\ IsFiniteSet(CardTitle(r, m, line))
         /\ \A q \in CardTitle(r, m, line) : Beside(q, r)
<1> DEFINE header == CardHeader(r, m)
<1> DEFINE pad == Least(CaptionPad, Quot(header.w, 8))
<1> DEFINE w == header.w - 2 * pad
<1> DEFINE name == Rect(header.x + pad, header.y + Quot(header.h - line, 2), w, line)
<1>1. CardTitle(r, m, line) = IF line <= 0 \/ line > header.h \/ header.w <= 0 \/ w <= 0 THEN {} ELSE {name}
  BY DEF CardTitle
<1>2. /\ header.x = r.x /\ header.w = r.w /\ header.y \in Int /\ header.h \in Int
      /\ r.x \in Int /\ r.w \in Nat
  BY DEF CardHeader, Rect, IsRect, MetricsOK, Most
<1> HIDE DEF header
<1>3. pad \in Nat
  BY <1>2 DEF Least, Quot, CaptionPad
<1> HIDE DEF pad
<1>4. w \in Int /\ header.x + pad \in Int /\ header.y + Quot(header.h - line, 2) \in Int
  BY <1>2, <1>3 DEF Quot
<1>5. name \in AnyRect
  BY <1>4, RectIsPlain
<1>6. Beside(name, r)
  BY <1>2, <1>3 DEF Beside, Rect, Right
<1>7. IsFiniteSet({}) /\ IsFiniteSet({name})
  BY FewAreFinite
<1> HIDE DEF name, w
<1> QED BY <1>1, <1>5, <1>6, <1>7

\* On one of the four fills of an outline.
OnRing(r, t, p) == \/ ContainsPoint(Rect(r.x, r.y, r.w, t), p)
                   \/ ContainsPoint(Rect(r.x, Bottom(r) - t, r.w, t), p)
                   \/ ContainsPoint(Rect(r.x, r.y, t, r.h), p)
                   \/ ContainsPoint(Rect(Right(r) - t, r.y, t, r.h), p)

LEMMA OutlineShows ==
  ASSUME NEW hit \in Hits, NEW r \in AnyRect, NEW width \in Nat \ {0}, NEW p, NEW h,
         OnRing(r, width, p) => hit = h
  PROVE  PushOutline(hit, r, width) \in Seq(Painting) /\ Only(PushOutline(hit, r, width), p, h)
<1>1. r.x \in Int /\ r.y \in Int /\ r.w \in Int /\ r.h \in Int /\ Most(width, 1) = width /\ width \in Int
  BY DEF AnyRect, Most
<1>2. Bottom(r) - width \in Int /\ Right(r) - width \in Int
  BY <1>1 DEF Right, Bottom
<1> DEFINE a == Push(hit, Rect(r.x, r.y, r.w, width))
<1> DEFINE b == Push(hit, Rect(r.x, Bottom(r) - width, r.w, width))
<1> DEFINE c == Push(hit, Rect(r.x, r.y, width, r.h))
<1> DEFINE d == Push(hit, Rect(Right(r) - width, r.y, width, r.h))
<1>3. PushOutline(hit, r, width) = a \o b \o c \o d
  BY <1>1 DEF PushOutline
<1>4. /\ a \in Seq(Painting) /\ Only(a, p, h) /\ b \in Seq(Painting) /\ Only(b, p, h)
      /\ c \in Seq(Painting) /\ Only(c, p, h) /\ d \in Seq(Painting) /\ Only(d, p, h)
  <2>1. /\ Rect(r.x, r.y, r.w, width) \in AnyRect /\ Rect(r.x, Bottom(r) - width, r.w, width) \in AnyRect
        /\ Rect(r.x, r.y, width, r.h) \in AnyRect /\ Rect(Right(r) - width, r.y, width, r.h) \in AnyRect
    BY <1>1, <1>2, RectIsPlain
  <2> QED BY <2>1, PushShows DEF OnRing
<1> HIDE DEF a, b, c, d
<1>5. a \o b \in Seq(Painting) /\ Only(a \o b, p, h)
  BY <1>4, AfterAnother
<1>6. (a \o b) \o c \in Seq(Painting) /\ Only((a \o b) \o c, p, h)
  BY <1>4, <1>5, AfterAnother
<1>7. ((a \o b) \o c) \o d \in Seq(Painting) /\ Only(((a \o b) \o c) \o d, p, h)
  BY <1>4, <1>6, AfterAnother
<1> QED BY <1>3, <1>7

----------------------------------------------------------------------------
(* The bars show what a press on them meets                                *)

\* Of two things apart, or beside each other, one is under a point.
LEMMA OneAtATime ==
  ASSUME NEW r \in AnyRect, NEW q \in AnyRect, NEW p, p.x \in Int, p.y \in Int, Apart(r, q)
  PROVE  ~(ContainsPoint(r, p) /\ ContainsPoint(q, p))
BY DEF Apart, ContainsPoint, Right, Bottom, AnyRect

LEMMA InsideIsOn ==
  ASSUME NEW r \in AnyRect, NEW q \in AnyRect, NEW p, p.x \in Int, p.y \in Int, Within(q, r),
         ContainsPoint(q, p)
  PROVE  ContainsPoint(r, p)
BY DEF Within, ContainsPoint, Right, Bottom, AnyRect

\* paint.rs top bar: on the bar a press is on what is seen, and beside it the
\* bar paints nothing, but for the line under a bar of no height.
LEMMA TopBarShows ==
  ASSUME NEW v, IsRect(v.zones.top_bar), v.top = TopBarLayout(v.zones.top_bar),
         NEW p, p.x \in Int, p.y \in Int, v.zones.top_bar.y <= p.y, NEW h
  PROVE  /\ PaintTopBar(v) \in Seq(Painting)
         /\ ~ContainsPoint(v.zones.top_bar, p) => Only(PaintTopBar(v), p, h)
         /\ ContainsPoint(v.zones.top_bar, p) /\ h = HitTopBar(v, p) => Shows(PaintTopBar(v), p, h)
<1> DEFINE bar == v.zones.top_bar
<1> DEFINE l == v.top
<1> DEFINE line == Rect(bar.x, Bottom(bar) - 1, bar.w, 1)
<1> DEFINE icon == UNION {MenuIcon(r) : r \in l.menu}
<1>1. /\ DOMAIN l = {"menu", "search", "clock", "status"}
      /\ \A item \in DOMAIN l : /\ l[item] \in SUBSET AnyRect /\ IsFiniteSet(l[item])
                                /\ \A r \in l[item] : Within(r, bar)
                                /\ \A r, q \in l[item] : r = q
      /\ \A a, b \in DOMAIN l : a # b => \A r \in l[a], q \in l[b] : Apart(r, q)
  <2>1. /\ DOMAIN l = {"menu", "search", "clock", "status"}
        /\ \A r \in UNION {l[item] : item \in DOMAIN l} : Within(r, bar) /\ r \in AnyRect
        /\ \A item \in DOMAIN l : IsFiniteSet(l[item]) /\ \A r, q \in l[item] : r = q
        /\ \A a, b \in DOMAIN l : a # b =>
                  \A r \in l[a], q \in l[b] : Right(r) + BarGap <= q.x \/ Right(q) + BarGap <= r.x
    BY TopBarFits
  <2>2. \A item \in DOMAIN l : \A r \in l[item] : Within(r, bar) /\ r \in AnyRect
    BY <2>1
  <2>3. \A r \in AnyRect, q \in AnyRect :
          Right(r) + BarGap <= q.x \/ Right(q) + BarGap <= r.x => Apart(r, q)
    BY DEF AnyRect, BarGap, Right, Apart
  <2> HIDE DEF l
  <2> QED BY <2>1, <2>2, <2>3
<1>2. bar \in AnyRect /\ line \in AnyRect
  <2>1. bar.x \in Int /\ bar.w \in Int /\ Bottom(bar) - 1 \in Int
    BY DEF IsRect, Bottom
  <2> QED BY <2>1, RectIsAny, RectIsPlain
<1>3. ContainsPoint(line, p) => ContainsPoint(bar, p)
  BY DEF IsRect, Rect, ContainsPoint, Right, Bottom
<1> HIDE DEF line
<1>4. icon \in SUBSET AnyRect /\ IsFiniteSet(icon)
      /\ \A q \in icon : ContainsPoint(q, p) => \E r \in l.menu : ContainsPoint(r, p)
  <2>1. CASE l.menu = {}
    <3>1. icon = {}
      BY <2>1
    <3> QED BY <3>1, FewAreFinite
  <2>2. CASE l.menu # {}
    <3>1. PICK r \in l.menu : TRUE
      BY <2>2
    <3>2. "menu" \in DOMAIN l
      BY <1>1
    <3>3. l.menu = {r} /\ r \in AnyRect
      BY <1>1, <3>1, <3>2
    <3>4. icon = MenuIcon(r)
      BY <3>3
    <3> HIDE DEF icon, l
    <3> QED BY <3>1, <3>3, <3>4, MenuIconFits, InsideIsOn
  <2> QED BY <2>1, <2>2
<1> HIDE DEF icon
<1> DEFINE a1 == Push(Part("top_bar"), bar)
<1> DEFINE a2 == Push(Part("top_bar"), line)
<1> DEFINE a3 == PushAll(Part("menu"), l.menu)
<1> DEFINE a4 == PushAll(Part("menu"), icon)
<1> DEFINE a5 == PushAll(Part("search"), l.search)
<1> DEFINE a6 == PushAll(Part("clock"), l.clock)
<1> DEFINE a7 == PushAll(Part("status"), l.status)
<1> DEFINE b2 == a1 \o a2
<1> DEFINE b3 == b2 \o a3
<1> DEFINE b4 == b3 \o a4
<1> DEFINE b5 == b4 \o a5
<1> DEFINE b6 == b5 \o a6
<1>5. PaintTopBar(v) = b6 \o a7
  BY DEF PaintTopBar, line, icon
<1>6. \A item \in DOMAIN l : Part(item) \in Hits
  BY <1>1, HitsAreHits DEF Places
<1>6a. Part("top_bar") \in Hits /\ Part("menu") \in Hits
  BY HitsAreHits DEF Places
\* What is on an item is on the bar and on no other item.
<1> DEFINE on(item) == \E r \in l[item] : ContainsPoint(r, p)
<1>7. ASSUME NEW item \in DOMAIN l, on(item)
      PROVE  ContainsPoint(bar, p) /\ \A other \in DOMAIN l : on(other) => other = item
  <2> HIDE DEF l, bar
  <2>1. PICK r \in l[item] : ContainsPoint(r, p)
    BY <1>7
  <2>2. ContainsPoint(bar, p)
    BY <1>1, <1>2, <2>1, InsideIsOn
  <2>3. ASSUME NEW other \in DOMAIN l, on(other), other # item PROVE FALSE
    <3>1. PICK q \in l[other] : ContainsPoint(q, p)
      BY <2>3
    <3>2. Apart(r, q) /\ r \in AnyRect /\ q \in AnyRect
      BY <1>1, <2>3
    <3> QED BY <2>1, <3>1, <3>2, OneAtATime
  <2> QED BY <2>2, <2>3
<1>8. /\ HitTopBar(v, p) = Part("top_bar") \/ \E item \in DOMAIN l : on(item)
      /\ \A item \in DOMAIN l : on(item) => HitTopBar(v, p) = Part(item)
  <2> DEFINE hits == {item \in DOMAIN l : on(item)}
  <2>1. HitTopBar(v, p) = Part(IF hits = {} THEN "top_bar" ELSE CHOOSE item \in hits : TRUE)
    BY DEF HitTopBar
  <2>2. \A item \in hits : hits = {item}
    BY <1>7
  <2> HIDE DEF l, hits
  <2>3. \A item \in hits : (CHOOSE i \in hits : TRUE) = item
    BY <2>2
  <2>4. hits = {} \/ \E item : item \in hits
    OBVIOUS
  <2> QED BY <2>1, <2>3, <2>4 DEF hits
<1>9. /\ a1 \in Seq(Painting) /\ a2 \in Seq(Painting) /\ a3 \in Seq(Painting) /\ a4 \in Seq(Painting)
      /\ a5 \in Seq(Painting) /\ a6 \in Seq(Painting) /\ a7 \in Seq(Painting)
  BY <1>1, <1>2, <1>4, <1>6, <1>6a, PushShows, PushAllShows
<1>10. ASSUME ContainsPoint(bar, p) => h = HitTopBar(v, p)
       PROVE  /\ Only(a3, p, h) /\ Only(a4, p, h) /\ Only(a5, p, h) /\ Only(a6, p, h)
              /\ Only(a7, p, h)
  <2>1. \A item \in DOMAIN l : on(item) => h = Part(item)
    BY <1>7, <1>8, <1>10
  <2>2. \A item \in DOMAIN l : \A r \in l[item] : ContainsPoint(r, p) => Part(item) = h
    BY <2>1
  <2>3. \A q \in icon : ContainsPoint(q, p) => Part("menu") = h
    BY <1>1, <1>4, <2>1
  <2> HIDE DEF l, bar
  <2>4. Only(a4, p, h)
    BY <1>4, <1>6a, <2>3, PushAllShows
  <2>5. \A item \in DOMAIN l : Only(PushAll(Part(item), l[item]), p, h)
    BY <1>1, <1>6, <2>2, PushAllShows
  <2> QED BY <1>1, <2>4, <2>5
<1>11. ~ContainsPoint(bar, p) => Only(a1, p, h) /\ Only(a2, p, h)
  <2> HIDE DEF bar
  <2> QED BY <1>2, <1>3, <1>6a, PushShows
<1>12. ASSUME ContainsPoint(bar, p), h = HitTopBar(v, p)
       PROVE  \/ Shows(a1, p, h) /\ Only(a2, p, h)
              \/ Shows(a3, p, h) \/ Shows(a5, p, h) \/ Shows(a6, p, h) \/ Shows(a7, p, h)
  <2>1. CASE h = Part("top_bar")
    <3> HIDE DEF bar
    <3> QED BY <1>2, <1>3, <1>6a, <1>12, <2>1, PushShows
  <2>2. CASE \E item \in DOMAIN l : on(item)
    <3>1. PICK item \in DOMAIN l : on(item)
      BY <2>2
    <3>2. h = Part(item)
      BY <1>8, <1>12, <3>1
    <3> HIDE DEF l
    <3>3. Shows(PushAll(Part(item), l[item]), p, h)
      BY <1>1, <1>6, <3>1, <3>2, PushAllShows
    <3> QED BY <1>1, <3>3
  <2> QED BY <1>8, <1>12, <2>1, <2>2
<1> HIDE DEF a1, a2, a3, a4, a5, a6, a7, bar, l, on
<1>13. /\ b2 \in Seq(Painting)
       /\ Only(a1, p, h) /\ Only(a2, p, h) => Only(b2, p, h)
       /\ Shows(a1, p, h) /\ Only(a2, p, h) => Shows(b2, p, h)
  BY <1>9, AfterAnother
<1> HIDE DEF b2
<1>14. /\ b3 \in Seq(Painting)
       /\ Only(b2, p, h) /\ Only(a3, p, h) => Only(b3, p, h)
       /\ Shows(b2, p, h) /\ Only(a3, p, h) => Shows(b3, p, h)
       /\ Shows(a3, p, h) => Shows(b3, p, h)
  BY <1>9, <1>13, AfterAnother
<1> HIDE DEF b3
<1>15. /\ b4 \in Seq(Painting)
       /\ Only(b3, p, h) /\ Only(a4, p, h) => Only(b4, p, h)
       /\ Shows(b3, p, h) /\ Only(a4, p, h) => Shows(b4, p, h)
  BY <1>9, <1>14, AfterAnother
<1> HIDE DEF b4
<1>16. /\ b5 \in Seq(Painting)
       /\ Only(b4, p, h) /\ Only(a5, p, h) => Only(b5, p, h)
       /\ Shows(b4, p, h) /\ Only(a5, p, h) => Shows(b5, p, h)
       /\ Shows(a5, p, h) => Shows(b5, p, h)
  BY <1>9, <1>15, AfterAnother
<1> HIDE DEF b5
<1>17. /\ b6 \in Seq(Painting)
       /\ Only(b5, p, h) /\ Only(a6, p, h) => Only(b6, p, h)
       /\ Shows(b5, p, h) /\ Only(a6, p, h) => Shows(b6, p, h)
       /\ Shows(a6, p, h) => Shows(b6, p, h)
  BY <1>9, <1>16, AfterAnother
<1> HIDE DEF b6
<1>18. /\ PaintTopBar(v) \in Seq(Painting)
       /\ Only(b6, p, h) /\ Only(a7, p, h) => Only(PaintTopBar(v), p, h)
       /\ Shows(b6, p, h) /\ Only(a7, p, h) => Shows(PaintTopBar(v), p, h)
       /\ Shows(a7, p, h) => Shows(PaintTopBar(v), p, h)
  BY <1>5, <1>9, <1>17, AfterAnother
<1>19. ASSUME ~ContainsPoint(bar, p) PROVE Only(PaintTopBar(v), p, h)
  BY <1>10, <1>11, <1>13, <1>14, <1>15, <1>16, <1>17, <1>18, <1>19
<1>20. ASSUME ContainsPoint(bar, p), h = HitTopBar(v, p) PROVE Shows(PaintTopBar(v), p, h)
  BY <1>10, <1>12, <1>13, <1>14, <1>15, <1>16, <1>17, <1>18, <1>20
<1> QED BY <1>18, <1>19, <1>20 DEF bar

\* paint.rs bottom bar: on the bar a press is on what is seen, and beside it
\* the bar paints nothing, but for the line over a bar of no height.
LEMMA BottomBarShows ==
  ASSUME NEW s, NEW v, NEW count \in Nat, IsRect(v.zones.bottom_bar),
         v.chips = BottomBarLayout(v.zones.bottom_bar, count),
         \A i \in DOMAIN v.chips : FocusMarkH <= v.chips[i].h,
         NEW p, p.x \in Int, p.y \in Int, p.y < Bottom(v.zones.bottom_bar), NEW h
  PROVE  /\ PaintBottomBar(s, v) \in Seq(Painting)
         /\ ~ContainsPoint(v.zones.bottom_bar, p) => Only(PaintBottomBar(s, v), p, h)
         /\ ContainsPoint(v.zones.bottom_bar, p) /\ h = HitBottomBar(v, p)
              => Shows(PaintBottomBar(s, v), p, h)
<1> DEFINE bar == v.zones.bottom_bar
<1> DEFINE chips == v.chips
<1> DEFINE line == Rect(bar.x, bar.y, bar.w, 1)
<1> DEFINE n == Len(chips)
<1>1. /\ n \in Nat /\ DOMAIN chips = 1..n
      /\ \A i \in 1..n : /\ Within(chips[i], bar) /\ chips[i] \in AnyRect
                         /\ FocusMarkH <= chips[i].h
                         /\ \A j \in 1..n : i # j => Apart(chips[i], chips[j])
  BY BottomBarFits
<1>2. bar \in AnyRect /\ line \in AnyRect
  <2>1. bar.x \in Int /\ bar.w \in Int /\ bar.y \in Int
    BY DEF IsRect
  <2> QED BY <2>1, RectIsAny, RectIsPlain
<1>3. ContainsPoint(line, p) => ContainsPoint(bar, p)
  BY DEF IsRect, Rect, ContainsPoint, Right, Bottom
<1>4. \A i \in 1..n : FocusMark(chips[i]) \in AnyRect /\ Within(FocusMark(chips[i]), chips[i])
  <2> TAKE i \in 1..n
  <2> DEFINE c == chips[i]
  <2>1. c \in AnyRect /\ FocusMarkH <= c.h
    BY <1>1
  <2> HIDE DEF c
  <2> QED BY <2>1 DEF AnyRect, FocusMark, FocusMarkH, Rect, Bottom, Right, Within, c
<1> DEFINE mark(i) == IF Bar(s.windows, Screen)[i] = s.windows.focus
                      THEN Push(OnChip(i), FocusMark(chips[i])) ELSE << >>
<1> DEFINE f == [i \in DOMAIN chips |-> Push(OnChip(i), chips[i]) \o mark(i)]
<1> DEFINE a1 == Push(Part("bottom_bar"), bar)
<1> DEFINE a2 == Push(Part("bottom_bar"), line)
<1> DEFINE b2 == a1 \o a2
<1>5. PaintBottomBar(s, v) = b2 \o FlattenSeq(f)
  BY DEF PaintBottomBar
<1> HIDE DEF line
<1>6. Part("bottom_bar") \in Hits /\ \A i \in 1..n : OnChip(i) \in Hits
  BY <1>1, HitsAreHits DEF Places
<1> DEFINE on(i) == ContainsPoint(chips[i], p)
<1>7. ASSUME NEW i \in 1..n, on(i)
      PROVE  ContainsPoint(bar, p) /\ \A j \in 1..n : on(j) => j = i
  <2> HIDE DEF chips, bar, n
  <2> QED BY <1>1, <1>2, <1>7, InsideIsOn, OneAtATime
<1>8. /\ HitBottomBar(v, p) = Part("bottom_bar") \/ \E i \in 1..n : on(i)
      /\ \A i \in 1..n : on(i) => HitBottomBar(v, p) = OnChip(i)
  <2> DEFINE hits == {i \in DOMAIN chips : on(i)}
  <2>1. HitBottomBar(v, p) = IF hits = {} THEN Part("bottom_bar") ELSE OnChip(CHOOSE i \in hits : TRUE)
    BY DEF HitBottomBar
  <2>2. hits = {i \in 1..n : on(i)}
    BY <1>1
  <2> HIDE DEF hits, chips, n
  <2>3. \A i \in hits : hits = {i}
    BY <1>7, <2>2
  <2>4. \A i \in hits : (CHOOSE j \in hits : TRUE) = i
    BY <2>3
  <2>5. hits = {} \/ \E i : i \in hits
    OBVIOUS
  <2> QED BY <2>1, <2>2, <2>4, <2>5
<1>9. ASSUME NEW i \in 1..n
      PROVE  /\ f[i] \in Seq(Painting)
             /\ (on(i) => OnChip(i) = h) => Only(f[i], p, h)
             /\ on(i) /\ OnChip(i) = h => Shows(f[i], p, h)
  <2>1. f[i] = Push(OnChip(i), chips[i]) \o mark(i)
    BY <1>1
  <2>2. chips[i] \in AnyRect /\ FocusMark(chips[i]) \in AnyRect
        /\ (ContainsPoint(FocusMark(chips[i]), p) => on(i))
    BY <1>1, <1>4, InsideIsOn
  <2> HIDE DEF f
  <2>3. /\ Push(OnChip(i), chips[i]) \in Seq(Painting)
        /\ (on(i) => OnChip(i) = h) => Only(Push(OnChip(i), chips[i]), p, h)
        /\ on(i) /\ OnChip(i) = h => Shows(Push(OnChip(i), chips[i]), p, h)
    BY <1>6, <2>2, PushShows
  <2>4. mark(i) \in Seq(Painting) /\ ((on(i) => OnChip(i) = h) => Only(mark(i), p, h))
    BY <1>6, <2>2, PushShows, NothingIsShown
  <2> HIDE DEF mark, on
  <2> QED BY <2>1, <2>3, <2>4, AfterAnother
<1>10. f \in [1..n -> Seq(Painting)]
  <2>1. f = [i \in 1..n |-> f[i]]
    BY <1>1
  <2> HIDE DEF f
  <2> QED BY <1>9, <2>1
<1> HIDE DEF f
<1>11. /\ a1 \in Seq(Painting) /\ a2 \in Seq(Painting)
       /\ ~ContainsPoint(bar, p) => Only(a1, p, h) /\ Only(a2, p, h)
       /\ ContainsPoint(bar, p) /\ h = Part("bottom_bar") => Shows(a1, p, h) /\ Only(a2, p, h)
  <2> HIDE DEF bar
  <2> QED BY <1>2, <1>3, <1>6, PushShows
<1>12. /\ FlattenSeq(f) \in Seq(Painting)
       /\ (ContainsPoint(bar, p) => h = HitBottomBar(v, p)) => Only(FlattenSeq(f), p, h)
       /\ \A i \in 1..n : on(i) /\ h = HitBottomBar(v, p) => Shows(FlattenSeq(f), p, h)
  <2> HIDE DEF bar, chips, n, on
  <2>1. ASSUME ContainsPoint(bar, p) => h = HitBottomBar(v, p) PROVE \A i \in 1..n : Only(f[i], p, h)
    BY <1>7, <1>8, <1>9, <2>1
  <2>2. ASSUME NEW i \in 1..n, on(i), h = HitBottomBar(v, p) PROVE Shows(f[i], p, h)
    BY <1>8, <1>9, <2>2
  <2> QED BY <1>1, <1>10, <2>1, <2>2, PiecesShow
<1> DEFINE rest == FlattenSeq(f)
<1> HIDE DEF a1, a2, bar, chips, n, on, rest
<1>13. /\ b2 \in Seq(Painting)
       /\ Only(a1, p, h) /\ Only(a2, p, h) => Only(b2, p, h)
       /\ Shows(a1, p, h) /\ Only(a2, p, h) => Shows(b2, p, h)
  BY <1>11, AfterAnother
<1> HIDE DEF b2
<1>14. /\ PaintBottomBar(s, v) \in Seq(Painting)
       /\ Only(b2, p, h) /\ Only(rest, p, h) => Only(PaintBottomBar(s, v), p, h)
       /\ Shows(b2, p, h) /\ Only(rest, p, h) => Shows(PaintBottomBar(s, v), p, h)
       /\ Shows(rest, p, h) => Shows(PaintBottomBar(s, v), p, h)
  BY <1>5, <1>12, <1>13, AfterAnother DEF rest
<1>15. ASSUME ~ContainsPoint(bar, p) PROVE Only(PaintBottomBar(s, v), p, h)
  BY <1>11, <1>12, <1>13, <1>14, <1>15 DEF rest
<1>16. ASSUME ContainsPoint(bar, p), h = HitBottomBar(v, p) PROVE Shows(PaintBottomBar(s, v), p, h)
  BY <1>8, <1>11, <1>12, <1>13, <1>14, <1>16 DEF rest
<1> QED BY <1>14, <1>15, <1>16 DEF bar

----------------------------------------------------------------------------
(* The windows do                                                          *)

\* What is on the ring of a window or card big enough for it is on that.
LEMMA RingIsInside ==
  ASSUME NEW r \in AnyRect, NEW t \in Nat \ {0}, NEW p, p.x \in Int, p.y \in Int, OnRing(r, t, p),
         t <= r.w, t <= r.h \/ (r.y <= p.y /\ p.y < Bottom(r))
  PROVE  ContainsPoint(r, p)
<1>1. r.x \in Int /\ r.y \in Int /\ r.w \in Int /\ r.h \in Int
  BY DEF AnyRect
<1>2. \/ r.x <= p.x /\ p.x < r.x + r.w /\ r.y <= p.y /\ p.y < r.y + t
      \/ r.x <= p.x /\ p.x < r.x + r.w /\ r.y + r.h - t <= p.y /\ p.y < r.y + r.h
      \/ r.x <= p.x /\ p.x < r.x + t /\ r.y <= p.y /\ p.y < r.y + r.h
      \/ r.x + r.w - t <= p.x /\ p.x < r.x + r.w /\ r.y <= p.y /\ p.y < r.y + r.h
  BY <1>1 DEF OnRing, ContainsPoint, Rect, Right, Bottom
<1> QED BY <1>1, <1>2 DEF ContainsPoint, Right, Bottom

\* paint.rs windows: where a window is, the one in front is seen; where none
\* is, they paint nothing.
LEMMA WindowsShow ==
  ASSUME NEW s, Sensible(s), NEW v, v.placed = Layout(s),
         \A i \in DOMAIN v.placed : ~s.look[v.placed[i].window].fullscreen,
         \A i \in DOMAIN v.placed :
           v.placed[i].window = s.windows.focus => /\ s.theme.metrics.focus_width <= v.placed[i].rect.w
                                                   /\ s.theme.metrics.focus_width <= v.placed[i].rect.h,
         NEW p, p.x \in Int, p.y \in Int, NEW h
  PROVE  LET hits == {i \in DOMAIN v.placed : ContainsPoint(v.placed[i].rect, p)}
         IN  /\ PaintWindows(s, v, FALSE) \in Seq(Painting)
             /\ PaintWindows(s, v, TRUE) \in Seq(Painting) /\ Only(PaintWindows(s, v, TRUE), p, h)
             /\ hits = {} => Only(PaintWindows(s, v, FALSE), p, h)
             /\ hits # {} => Max(hits) \in DOMAIN v.placed
             /\ hits # {} /\ h = OnWindow(v.placed[Max(hits)].window) => Shows(PaintWindows(s, v, FALSE), p, h)
<1> DEFINE placed == v.placed
<1> DEFINE n == Len(placed)
<1> DEFINE on(i) == ContainsPoint(placed[i].rect, p)
<1> DEFINE hits == {i \in DOMAIN placed : on(i)}
<1> DEFINE t == s.theme.metrics.focus_width
<1>1. /\ n \in Nat /\ DOMAIN placed = 1..n
      /\ \A i \in 1..n : placed[i].window \in Live(s.windows) /\ placed[i].rect \in AnyRect
  BY LayoutIsLive
<1>2. \A w \in Live(s.windows) : OnWindow(w) \in Hits /\ s.look[w].fullscreen \in BOOLEAN
  <2>1. Live(s.windows) \subseteq Nat
    BY ModelParts DEF Sensible, Good
  <2>2. \A w \in Live(s.windows) : LookOK(s.look[w])
    BY DEF Sensible, LooksOK
  <2> QED BY <2>1, <2>2, HitsAreHits DEF LookOK
<1>3. \A i \in 1..n : s.look[placed[i].window].fullscreen = FALSE
  BY <1>1, <1>2
<1>4. t \in Nat \ {0}
  BY DEF Sensible, MetricsOK
<1>5. \A i \in 1..n : placed[i].window = s.windows.focus => t <= placed[i].rect.w /\ t <= placed[i].rect.h
  BY <1>1
<1> HIDE DEF placed, n, t
<1> DEFINE ring(i) == IF placed[i].window = s.windows.focus /\ ~s.look[placed[i].window].fullscreen
                      THEN PushOutline(OnWindow(placed[i].window), placed[i].rect, t) ELSE << >>
<1>6. ASSUME NEW i \in 1..n
      PROVE  LET l == PaintWindow(s, placed[i])
                 hit == OnWindow(placed[i].window)
             IN  /\ l \in Seq(Painting)
                 /\ (on(i) => hit = h) => Only(l, p, h)
                 /\ on(i) /\ hit = h => Shows(l, p, h)
  <2> DEFINE hit == OnWindow(placed[i].window)
  <2> DEFINE r == placed[i].rect
  <2> DEFINE e == [hit |-> hit, rect |-> r]
  <2>1. hit \in Hits /\ r \in AnyRect
    BY <1>1, <1>2
  <2>2. OnRing(r, t, p) /\ placed[i].window = s.windows.focus => on(i)
    <3> SUFFICES ASSUME OnRing(r, t, p), placed[i].window = s.windows.focus PROVE ContainsPoint(r, p)
      OBVIOUS
    <3>1. t <= r.w /\ t <= r.h
      BY <1>5
    <3> HIDE DEF r
    <3> QED BY <1>4, <2>1, <3>1, RingIsInside
  <2>3. e \in Painting /\ e.hit = hit /\ e.rect = r
    BY <2>1 DEF Painting
  <2>4. PaintWindow(s, placed[i]) = <<e>> \o ring(i)
    BY DEF PaintWindow, t
  <2> HIDE DEF e, hit
  <2>5. /\ <<e>> \in Seq(Painting)
        /\ (on(i) => hit = h) => Only(<<e>>, p, h)
        /\ on(i) /\ hit = h => Shows(<<e>>, p, h)
    BY <2>3, OneIsShown
  <2>6. << >> \in Seq(Painting) /\ Only(<< >>, p, h)
    BY NothingIsShown
  <2>7. ring(i) \in Seq(Painting)
    <3>1. OnRing(r, t, p) => hit = hit
      OBVIOUS
    <3>2. PushOutline(hit, r, t) \in Seq(Painting)
      BY <1>4, <2>1, OutlineShows
    <3> QED BY <2>6, <3>2 DEF hit
  <2>8. (on(i) => hit = h) => Only(ring(i), p, h)
    <3>1. ASSUME on(i) => hit = h, placed[i].window = s.windows.focus
          PROVE  Only(PushOutline(hit, r, t), p, h)
      BY <1>4, <2>1, <2>2, <3>1, OutlineShows
    <3> QED BY <2>6, <3>1 DEF hit
  <2> DEFINE a == <<e>>
  <2> DEFINE b == ring(i)
  <2>9. a \in Seq(Painting) /\ b \in Seq(Painting) /\ PaintWindow(s, placed[i]) = a \o b
    BY <2>4, <2>5, <2>7
  <2>10. /\ (on(i) => hit = h) => Only(a, p, h) /\ Only(b, p, h)
         /\ on(i) /\ hit = h => Shows(a, p, h)
    BY <2>5, <2>8
  <2> HIDE DEF a, b, on
  <2> QED BY <2>9, <2>10, AfterAnother DEF hit
<1> DEFINE piece(fullscreen) ==
      [i \in DOMAIN placed |-> IF s.look[placed[i].window].fullscreen = fullscreen
                               THEN PaintWindow(s, placed[i]) ELSE << >>]
<1>7. \A b \in BOOLEAN : PaintWindows(s, v, b) = FlattenSeq(piece(b))
  BY DEF PaintWindows, placed
<1> DEFINE f == piece(FALSE)
<1> DEFINE none == piece(TRUE)
<1>8. f = [i \in 1..n |-> PaintWindow(s, placed[i])] /\ none = [i \in 1..n |-> << >>]
  BY <1>1, <1>3
<1>9. PaintWindows(s, v, FALSE) = FlattenSeq(f) /\ PaintWindows(s, v, TRUE) = FlattenSeq(none)
  BY <1>7
<1> HIDE DEF f, none
<1>10. f \in [1..n -> Seq(Painting)] /\ none \in [1..n -> Seq(Painting)]
  BY <1>6, <1>8, NothingIsShown
<1>11. PaintWindows(s, v, TRUE) \in Seq(Painting) /\ Only(PaintWindows(s, v, TRUE), p, h)
  <2>1. \A i \in 1..n : Only(none[i], p, h)
    BY <1>8, NothingIsShown
  <2> QED BY <1>1, <1>9, <1>10, <2>1, PiecesShow
<1>12. PaintWindows(s, v, FALSE) \in Seq(Painting)
  BY <1>1, <1>9, <1>10, PiecesShow
<1>13. ASSUME hits = {} PROVE Only(PaintWindows(s, v, FALSE), p, h)
  <2>1. \A i \in 1..n : ~on(i)
    BY <1>1, <1>13
  <2> HIDE DEF on
  <2>2. \A i \in 1..n : Only(f[i], p, h)
    BY <1>6, <1>8, <2>1
  <2> QED BY <1>1, <1>9, <1>10, <2>2, PiecesShow
<1>14. ASSUME hits # {} PROVE Max(hits) \in hits /\ \A j \in hits : j <= Max(hits)
  <2>1. hits \in SUBSET (1..n)
    BY <1>1
  <2> HIDE DEF hits
  <2> QED BY <1>1, <1>14, <2>1, GreatestIndex
<1>15. ASSUME hits # {}, h = OnWindow(placed[Max(hits)].window)
       PROVE  Shows(PaintWindows(s, v, FALSE), p, h)
  <2> DEFINE k == Max(hits)
  <2>1. k \in 1..n /\ on(k) /\ \A j \in 1..n : k < j => ~on(j)
    <3>1. k \in hits /\ \A j \in hits : j <= k
      BY <1>14, <1>15
    <3> HIDE DEF k
    <3>2. k \in 1..n /\ on(k)
      BY <1>1, <3>1
    <3>3. ASSUME NEW j \in 1..n, k < j, on(j) PROVE FALSE
      <4>1. j \in hits
        BY <1>1, <3>3
      <4>2. j <= k
        BY <3>1, <4>1
      <4> HIDE DEF hits
      <4> QED BY <3>2, <3>3, <4>2
    <3> QED BY <3>2, <3>3
  <2> HIDE DEF k, on
  <2>2. Shows(f[k], p, h)
    BY <1>6, <1>8, <1>15, <2>1 DEF k
  <2>3. \A j \in 1..n : k < j => Only(f[j], p, h)
    BY <1>6, <1>8, <2>1
  <2> QED BY <1>1, <1>9, <1>10, <2>1, <2>2, <2>3, PiecesShow
<1> QED BY <1>11, <1>12, <1>13, <1>14, <1>15 DEF placed

----------------------------------------------------------------------------
(* And a card                                                              *)

\* What is between the sides of a card is on it, at a point of its rows.
LEMMA BesideIsOn ==
  ASSUME NEW r \in AnyRect, NEW q \in AnyRect, NEW p, p.x \in Int, p.y \in Int, Beside(q, r),
         r.y <= p.y, p.y < Bottom(r), ContainsPoint(q, p)
  PROVE  ContainsPoint(r, p)
BY DEF Beside, ContainsPoint, Right, Bottom, AnyRect

\* A ring no wider than the pad is beside what is inside the pad.
LEMMA RingIsOutside ==
  ASSUME NEW r \in AnyRect, NEW q \in AnyRect, NEW t \in Nat \ {0}, NEW pad \in Nat, t <= pad,
         NEW p, p.x \in Int, p.y \in Int, ContainsPoint(q, p),
         r.x + pad <= q.x, Right(q) + pad <= Right(r), r.y + pad <= q.y, Bottom(q) + pad <= Bottom(r)
  PROVE  ~OnRing(r, t, p)
<1>1. /\ r.x \in Int /\ r.y \in Int /\ r.w \in Int /\ r.h \in Int
      /\ q.x \in Int /\ q.y \in Int /\ q.w \in Int /\ q.h \in Int
  BY DEF AnyRect
<1>2. /\ r.x + t <= p.x /\ p.x + t < r.x + r.w
      /\ r.y + t <= p.y /\ p.y + t < r.y + r.h
  BY <1>1 DEF ContainsPoint, Right, Bottom
<1> QED BY <1>1, <1>2 DEF OnRing, ContainsPoint, Rect, Right, Bottom

\* paint.rs a card: in its rows a press on it is on what is seen, and beside
\* it the card paints nothing, its header and its ring among that.
LEMMA CardShows ==
  ASSUME NEW s, MetricsOK(s.theme.metrics), s.theme.fonts.size_tile \in Int,
         s.theme.fonts.size_card \in Int,
         NEW i \in Nat, NEW card, IsRect(card), NEW count \in Nat, NEW tiles,
         tiles = LayoutTiles(card, s.theme.metrics, count),
         s.theme.metrics.focus_width <= s.theme.metrics.card_pad,
         s.theme.metrics.focus_width <= card.w,
         NEW p, p.x \in Int, p.y \in Int, NEW h
  PROVE  LET l    == PaintCard(s, i, card, tiles)
             hits == {t \in DOMAIN tiles : ContainsPoint(tiles[t], p)}
             hit  == IF hits = {} THEN OnCard(i) ELSE OnCardTile(i, CHOOSE t \in hits : TRUE)
         IN  /\ l \in Seq(Painting)
             /\ card.y <= p.y /\ p.y < Bottom(card) =>
                  /\ ~ContainsPoint(card, p) => Only(l, p, h)
                  /\ ContainsPoint(card, p) /\ h = hit => Shows(l, p, h)
<1> DEFINE m == s.theme.metrics
<1> DEFINE line == LineHeight(s.theme.fonts.size_tile)
<1> DEFINE title == CardTitle(card, m, LineHeight(s.theme.fonts.size_card))
<1> DEFINE n == Len(tiles)
<1> DEFINE head == CardHeader(card, m)
<1> DEFINE rows == card.y <= p.y /\ p.y < Bottom(card)
<1> DEFINE caption(t) == TileFace(tiles[t], line).caption
<1> DEFINE f == [t \in DOMAIN tiles |-> Push(OnCardTile(i, t), tiles[t])
                                          \o PushAll(OnCardTile(i, t), caption(t))]
<1> DEFINE a1 == Push(OnCard(i), card)
<1> DEFINE a2 == Push(OnCard(i), head)
<1> DEFINE a3 == PushAll(OnCard(i), title)
<1> DEFINE a4 == FlattenSeq(f)
<1> DEFINE a5 == IF i = s.strip.active THEN PushOutline(OnCard(i), card, m.focus_width) ELSE << >>
<1> DEFINE l == PaintCard(s, i, card, tiles)
<1>1. l = (((a1 \o a2) \o a3) \o a4) \o a5
  BY DEF PaintCard
<1>2. line \in Int /\ LineHeight(s.theme.fonts.size_card) \in Int
  BY DEF LineHeight
<1>3. MetricsOK(m) /\ m.focus_width \in Nat \ {0} /\ m.card_pad \in Nat
  BY DEF MetricsOK
<1>4. /\ n \in Nat /\ DOMAIN tiles = 1..n
      /\ \A t \in 1..n :
           /\ IsRect(tiles[t]) /\ Within(tiles[t], card)
           /\ card.x + m.card_pad <= tiles[t].x /\ Right(tiles[t]) + m.card_pad <= Right(card)
           /\ card.y + m.card_pad <= tiles[t].y /\ Bottom(tiles[t]) + m.card_pad <= Bottom(card)
           /\ \A u \in 1..n : u # t => Apart(tiles[t], tiles[u])
  BY CardTilesFit
<1>5. card \in AnyRect /\ \A t \in 1..n : tiles[t] \in AnyRect
  BY <1>4, RectIsAny
<1>6. head \in AnyRect /\ Beside(head, card)
  BY <1>3 DEF CardHeader, IsRect, MetricsOK, AnyRect, Rect, Most, Beside, Right
<1>7. title \in SUBSET AnyRect /\ IsFiniteSet(title) /\ \A q \in title : Beside(q, card)
  BY <1>2, <1>3, TitleFits
<1>8. OnCard(i) \in Hits /\ \A t \in 1..n : OnCardTile(i, t) \in Hits
  BY <1>4, HitsAreHits
<1>9. \A t \in 1..n : /\ caption(t) \in SUBSET AnyRect /\ IsFiniteSet(caption(t))
                      /\ \A c \in caption(t) : Within(c, tiles[t])
  BY <1>2, <1>4, FaceFits
<1> HIDE DEF line, m
<1> DEFINE on(t) == ContainsPoint(tiles[t], p)
<1> DEFINE hits == {t \in DOMAIN tiles : on(t)}
<1> DEFINE hit == IF hits = {} THEN OnCard(i) ELSE OnCardTile(i, CHOOSE t \in hits : TRUE)
<1>10. ASSUME NEW t \in 1..n, on(t)
       PROVE  ContainsPoint(card, p) /\ hit = OnCardTile(i, t) /\ ~OnRing(card, m.focus_width, p)
  <2>1. \A u \in 1..n : on(u) => u = t
    <3> SUFFICES ASSUME NEW u \in 1..n, on(u), u # t PROVE FALSE
      OBVIOUS
    <3>1. Apart(tiles[t], tiles[u]) /\ tiles[t] \in AnyRect /\ tiles[u] \in AnyRect
      BY <1>4, <1>5
    <3> QED BY <1>10, <3>1, OneAtATime
  <2>2. hits = {t}
    BY <1>4, <1>10, <2>1
  <2>3. hit = OnCardTile(i, t)
    <3> HIDE DEF hits
    <3>1. (CHOOSE u \in hits : TRUE) = t
      BY <2>2
    <3> QED BY <2>2, <3>1
  <2> DEFINE q == tiles[t]
  <2>4. /\ q \in AnyRect /\ Within(q, card) /\ ContainsPoint(q, p)
        /\ card.x + m.card_pad <= q.x /\ Right(q) + m.card_pad <= Right(card)
        /\ card.y + m.card_pad <= q.y /\ Bottom(q) + m.card_pad <= Bottom(card)
    BY <1>4, <1>5, <1>10
  <2>5. m.focus_width <= m.card_pad
    BY DEF m
  <2> HIDE DEF q, hits, hit
  <2>6. ContainsPoint(card, p)
    BY <1>5, <2>4, InsideIsOn
  <2>7. ~OnRing(card, m.focus_width, p)
    BY <1>3, <1>5, <2>4, <2>5, RingIsOutside
  <2> QED BY <2>3, <2>6, <2>7
<1>11. hit = OnCard(i) \/ \E t \in 1..n : on(t)
  BY <1>4
<1> HIDE DEF hit, hits
<1>12. ASSUME NEW t \in 1..n
       PROVE  /\ f[t] \in Seq(Painting)
              /\ (on(t) => OnCardTile(i, t) = h) => Only(f[t], p, h)
              /\ on(t) /\ OnCardTile(i, t) = h => Shows(f[t], p, h)
  <2> DEFINE b == Push(OnCardTile(i, t), tiles[t])
  <2> DEFINE c == PushAll(OnCardTile(i, t), caption(t))
  <2>1. f[t] = b \o c
    BY <1>4
  <2>2. tiles[t] \in AnyRect /\ OnCardTile(i, t) \in Hits
        /\ \A r \in caption(t) : ContainsPoint(r, p) => on(t)
    BY <1>5, <1>8, <1>9, InsideIsOn
  <2> HIDE DEF f
  <2>3. /\ b \in Seq(Painting)
        /\ (on(t) => OnCardTile(i, t) = h) => Only(b, p, h)
        /\ on(t) /\ OnCardTile(i, t) = h => Shows(b, p, h)
    BY <2>2, PushShows
  <2>4. c \in Seq(Painting) /\ ((on(t) => OnCardTile(i, t) = h) => Only(c, p, h))
    BY <1>9, <2>2, PushAllShows
  <2> HIDE DEF b, c, on
  <2> QED BY <2>1, <2>3, <2>4, AfterAnother
<1>13. f \in [1..n -> Seq(Painting)]
  <2>1. f = [t \in 1..n |-> f[t]]
    BY <1>4
  <2> HIDE DEF f
  <2> QED BY <1>12, <2>1
<1> HIDE DEF f
<1>14. /\ a4 \in Seq(Painting)
       /\ (\A t \in 1..n : on(t) => OnCardTile(i, t) = h) => Only(a4, p, h)
       /\ \A t \in 1..n : on(t) /\ h = hit => Shows(a4, p, h)
  <2> HIDE DEF on
  <2>1. ASSUME NEW t \in 1..n, on(t), h = hit PROVE Shows(f[t], p, h) /\ \A u \in 1..n : Only(f[u], p, h)
    BY <1>10, <1>12, <2>1
  <2>2. ASSUME \A t \in 1..n : on(t) => OnCardTile(i, t) = h PROVE \A t \in 1..n : Only(f[t], p, h)
    BY <1>12, <2>2
  <2> QED BY <1>4, <1>13, <2>1, <2>2, PiecesShow
<1>15. a1 \in Seq(Painting) /\ a2 \in Seq(Painting) /\ a3 \in Seq(Painting)
  BY <1>5, <1>6, <1>7, <1>8, PushShows, PushAllShows
<1>16. a5 \in Seq(Painting)
  <2>1. PushOutline(OnCard(i), card, m.focus_width) \in Seq(Painting)
    BY <1>3, <1>5, <1>8, OutlineShows
  <2> QED BY <2>1, NothingIsShown
<1>17. ASSUME OnRing(card, m.focus_width, p) => h = OnCard(i) PROVE Only(a5, p, h)
  <2>1. Only(PushOutline(OnCard(i), card, m.focus_width), p, h)
    BY <1>3, <1>5, <1>8, <1>17, OutlineShows
  <2> QED BY <2>1, NothingIsShown
<1>18. ASSUME rows, ~ContainsPoint(card, p) PROVE ~OnRing(card, m.focus_width, p)
  <2>1. m.focus_width <= card.w
    BY DEF m
  <2> QED BY <1>3, <1>5, <1>18, <2>1, RingIsInside
<1>19. (rows /\ ~ContainsPoint(card, p)) \/ h = OnCard(i) => Only(a1, p, h) /\ Only(a2, p, h) /\ Only(a3, p, h)
  <2>1. rows /\ ContainsPoint(head, p) => ContainsPoint(card, p)
    BY <1>5, <1>6, BesideIsOn
  <2>2. rows => \A q \in title : ContainsPoint(q, p) => ContainsPoint(card, p)
    BY <1>5, <1>7, BesideIsOn
  <2> HIDE DEF rows, head, title
  <2> QED BY <1>5, <1>6, <1>7, <1>8, <2>1, <2>2, PushShows, PushAllShows
<1>20. ContainsPoint(card, p) /\ h = OnCard(i) => Shows(a1, p, h)
  BY <1>5, <1>8, PushShows
<1>21. ContainsPoint(card, p) => rows
  BY DEF ContainsPoint
<1> HIDE DEF a1, a2, a3, a4, a5, l, on, rows, n, head, title
<1> DEFINE b2 == a1 \o a2
<1> DEFINE b3 == b2 \o a3
<1> DEFINE b4 == b3 \o a4
<1>22. /\ b2 \in Seq(Painting)
       /\ Only(a1, p, h) /\ Only(a2, p, h) => Only(b2, p, h)
       /\ Shows(a1, p, h) /\ Only(a2, p, h) => Shows(b2, p, h)
  BY <1>15, AfterAnother
<1>23. l = b4 \o a5
  BY <1>1
<1> HIDE DEF b2
<1>24. /\ b3 \in Seq(Painting)
       /\ Only(b2, p, h) /\ Only(a3, p, h) => Only(b3, p, h)
       /\ Shows(b2, p, h) /\ Only(a3, p, h) => Shows(b3, p, h)
  BY <1>15, <1>22, AfterAnother
<1> HIDE DEF b3
<1>25. /\ b4 \in Seq(Painting)
       /\ Only(b3, p, h) /\ Only(a4, p, h) => Only(b4, p, h)
       /\ Shows(b3, p, h) /\ Only(a4, p, h) => Shows(b4, p, h)
       /\ Shows(a4, p, h) => Shows(b4, p, h)
  BY <1>14, <1>24, AfterAnother
<1> HIDE DEF b4
<1>26. /\ l \in Seq(Painting)
       /\ Only(b4, p, h) /\ Only(a5, p, h) => Only(l, p, h)
       /\ Shows(b4, p, h) /\ Only(a5, p, h) => Shows(l, p, h)
  BY <1>16, <1>23, <1>25, AfterAnother
<1>27. ASSUME rows, ~ContainsPoint(card, p) PROVE Only(l, p, h)
  <2>1. Only(a4, p, h) /\ Only(a5, p, h)
    BY <1>10, <1>14, <1>17, <1>18, <1>27
  <2> QED BY <1>19, <1>22, <1>24, <1>25, <1>26, <1>27, <2>1
<1>28. ASSUME ContainsPoint(card, p), h = hit PROVE Shows(l, p, h)
  <2>1. CASE \E t \in 1..n : on(t)
    <3>1. PICK t \in 1..n : on(t)
      BY <2>1
    <3>2. Shows(a4, p, h) /\ Only(a5, p, h)
      BY <1>10, <1>14, <1>17, <1>28, <3>1
    <3> QED BY <1>25, <1>26, <3>2
  <2>2. CASE ~\E t \in 1..n : on(t)
    <3>1. h = OnCard(i)
      BY <1>11, <1>28, <2>2
    <3>2. Only(a4, p, h) /\ Only(a5, p, h)
      BY <1>14, <1>17, <2>2, <3>1
    <3> QED BY <1>19, <1>20, <1>22, <1>24, <1>25, <1>26, <1>28, <3>1, <3>2
  <2> QED BY <2>1, <2>2
<1> QED BY <1>26, <1>27, <1>28 DEF rows, l, hit, hits, on

----------------------------------------------------------------------------
(* And the strip of cards                                                  *)

\* Two columns of the strip are apart, and what is to the left stays there.
LEMMA ColumnsApart ==
  ASSUME NEW zone, IsRect(zone), IsValid(zone), NEW m, MetricsOK(m), NEW count \in Nat,
         NEW active \in 0..(count - 1), NEW i \in 0..count, NEW j \in 0..count, i < j
  PROVE  ColumnX(zone, m, count, active, i) + CardWidth(zone, m) <= ColumnX(zone, m, count, active, j)
<1> DEFINE width == CardWidth(zone, m)
<1> DEFINE step == width + m.card_gap
<1> DEFINE offset == StripOffset(zone, m, count, active)
<1>1. width \in Nat /\ m.card_gap \in Nat /\ zone.x \in Int /\ zone.w \in Nat /\ step \in Nat
  BY DEF CardWidth, Least, MetricsOK, IsRect
<1>2. step * i \in Nat /\ step * j \in Nat /\ step * i + step <= step * j
  <2> HIDE DEF step
  <2>1. i \in Nat /\ j \in Nat
    OBVIOUS
  <2> QED BY <1>1, <2>1, ProductGrows
<1>3. i * step = step * i /\ j * step = step * j
  BY <1>1
<1>4. offset \in Int
  <2>1. /\ step * count \in Nat /\ step * active \in Nat
        /\ offset = IF step * count + width <= zone.w THEN Quot(-(zone.w - (step * count + width)), 2)
                    ELSE Clamp(step * active + Quot(width, 2) - Quot(zone.w, 2), 0,
                               step * count + width - zone.w)
    BY OffsetIs
  <2> DEFINE N == step * count
  <2> DEFINE A == step * active
  <2>2. N \in Nat /\ A \in Nat /\ offset = IF N + width <= zone.w THEN Quot(-(zone.w - (N + width)), 2)
                    ELSE Clamp(A + Quot(width, 2) - Quot(zone.w, 2), 0, N + width - zone.w)
    BY <2>1
  <2> HIDE DEF N, A, offset, width
  <2> QED BY <1>1, <2>2 DEF Quot, Clamp, Least, Most
<1>5. /\ ColumnX(zone, m, count, active, i) = zone.x + step * i - offset
      /\ ColumnX(zone, m, count, active, j) = zone.x + step * j - offset
  BY <1>3 DEF ColumnX
<1> DEFINE I == step * i
<1> DEFINE J == step * j
<1>6. I \in Nat /\ J \in Nat /\ I + width + m.card_gap <= J
  BY <1>1, <1>2
<1>7. /\ ColumnX(zone, m, count, active, i) = zone.x + I - offset
      /\ ColumnX(zone, m, count, active, j) = zone.x + J - offset
  BY <1>5
<1> HIDE DEF I, J, offset, width, step
<1> QED BY <1>1, <1>4, <1>6, <1>7 DEF width

\* The columns on the screen are rectangles between the bars, no two of them
\* under the same point, the slot for a new card among them.
LEMMA ColumnsAreApart ==
  ASSUME NEW zone, IsRect(zone), NEW m, MetricsOK(m), NEW count \in Nat,
         NEW active \in 0..(count - 1)
  PROVE  LET columns == CardColumns(zone, m, count, active)
             cards   == columns.cards
         IN  /\ DOMAIN cards \subseteq 0..(count - 1)
             /\ \A i \in DOMAIN cards :
                  /\ IsRect(cards[i]) /\ cards[i].y = zone.y /\ cards[i].h = zone.h
                  /\ \A j \in DOMAIN cards : i # j => Apart(cards[i], cards[j])
             /\ columns.add = {} \/ \E r : columns.add = {r} /\ IsRect(r) /\ r.y = zone.y /\ r.h = zone.h
<1> DEFINE x(i) == ColumnX(zone, m, count, active, i)
<1> DEFINE width == CardWidth(zone, m)
<1> DEFINE col(i) == Rect(x(i), zone.y, width, zone.h)
<1> DEFINE columns == CardColumns(zone, m, count, active)
<1> DEFINE cards == columns.cards
<1>1. /\ DOMAIN cards \subseteq 0..(count - 1)
      /\ DOMAIN cards # {} => IsValid(zone)
      /\ \A i \in DOMAIN cards : cards[i] = col(i)
  BY ColumnsFacts
<1>2. ASSUME IsValid(zone) PROVE width \in Nat /\ \A i \in 0..count : x(i) \in Int
  <2>1. width \in 1..zone.w /\ \A i \in 0..count : x(i) \in Int
    BY <1>2, StripFits
  <2> QED BY <2>1 DEF IsRect
<1>3. ASSUME IsValid(zone), NEW i \in 0..count
      PROVE  IsRect(col(i)) /\ col(i).y = zone.y /\ col(i).h = zone.h
  <2>1. x(i) \in Int /\ width \in Nat /\ zone.y \in Int /\ zone.h \in Nat
    BY <1>2, <1>3 DEF IsRect
  <2> HIDE DEF x, width
  <2> QED BY <2>1 DEF IsRect, Rect
<1>4. ASSUME IsValid(zone), NEW i \in 0..count, NEW j \in 0..count, i # j
      PROVE  Apart(col(i), col(j))
  <2>1. i < j \/ j < i
    BY <1>4
  <2>2. x(i) + width <= x(j) \/ x(j) + width <= x(i)
    BY <1>4, <2>1, ColumnsApart
  <2> HIDE DEF x, width
  <2> QED BY <2>2 DEF Apart, Rect, Right
<1>5. columns.add = {} \/ (IsValid(zone) /\ columns.add = {col(count)})
  <2>1. columns = IF zone.w <= 0 \/ zone.h <= 0 THEN [cards |-> << >>, add |-> {}]
                  ELSE [cards |-> [i \in ShownColumns(zone, m, count, active) \ {count} |-> col(i)],
                        add   |-> {col(i) : i \in ShownColumns(zone, m, count, active) \cap {count}}]
    BY DEF CardColumns
  <2> HIDE DEF columns, col
  <2>2. CASE zone.w <= 0 \/ zone.h <= 0
    BY <2>1, <2>2
  <2>3. CASE ~(zone.w <= 0 \/ zone.h <= 0)
    <3>1. IsValid(zone)
      BY <2>3 DEF IsValid, IsRect
    <3>2. columns.add = {col(i) : i \in ShownColumns(zone, m, count, active) \cap {count}}
      BY <2>1, <2>3
    <3> QED BY <3>1, <3>2
  <2> QED BY <2>2, <2>3
<1> HIDE DEF columns, col
<1>6. columns.add = {} \/ \E r : columns.add = {r} /\ IsRect(r) /\ r.y = zone.y /\ r.h = zone.h
  BY <1>3, <1>5
<1>7. ASSUME NEW i \in DOMAIN cards
      PROVE  /\ IsRect(cards[i]) /\ cards[i].y = zone.y /\ cards[i].h = zone.h
             /\ \A j \in DOMAIN cards : i # j => Apart(cards[i], cards[j])
  <2>1. IsValid(zone) /\ DOMAIN cards \subseteq 0..count
    BY <1>1, <1>7
  <2> QED BY <1>1, <1>3, <1>4, <1>7, <2>1
<1> QED BY <1>1, <1>6, <1>7 DEF columns

\* paint.rs the cards: between the bars a press on a card is on what is seen
\* there, and where the press is on none they paint nothing.
LEMMA CardsShow ==
  ASSUME NEW s, Sensible(s), Len(s.strip.tabs) \in Nat,
         s.strip.active \in 0..(Len(s.strip.tabs) - 1),
         \A i \in 1..Len(s.strip.tabs) : s.items[s.strip.tabs[i]] \in Nat,
         s.theme.fonts.size_tile \in Int, s.theme.fonts.size_card \in Int,
         NEW v, v.columns = Columns(s),
         v.tiles = [i \in DOMAIN v.columns.cards |-> TilesOf(s, i, v.columns.cards[i])],
         s.theme.metrics.focus_width <= s.theme.metrics.card_pad,
         \A i \in DOMAIN v.columns.cards : s.theme.metrics.focus_width <= v.columns.cards[i].w,
         NEW p, p.x \in Int, p.y \in Int, NEW h
  PROVE  /\ PaintCards(s, v) \in Seq(Painting)
         /\ s.zones.apps.y <= p.y /\ p.y < Bottom(s.zones.apps) /\ h = HitCards(v, p) =>
              Shows(PaintCards(s, v), p, h) \/ (h = Part("desktop") /\ Only(PaintCards(s, v), p, h))
<1> DEFINE zone == s.zones.apps
<1> DEFINE m == s.theme.metrics
<1> DEFINE count == Len(s.strip.tabs)
<1> DEFINE cards == v.columns.cards
<1> DEFINE add == v.columns.add
<1> DEFINE rows == zone.y <= p.y /\ p.y < Bottom(zone)
<1> DEFINE piece(i) == PaintCard(s, i, cards[i], v.tiles[i])
<1> DEFINE f == [k \in 1..count |-> IF k - 1 \in DOMAIN cards THEN piece(k - 1) ELSE << >>]
<1> DEFINE headers == {CardHeader(r, m) : r \in add}
<1> DEFINE marks == UNION {PlusMark(r, m) : r \in add}
<1> DEFINE a1 == FlattenSeq(f)
<1> DEFINE a2 == PushAll(Part("new_card"), add)
<1> DEFINE a3 == PushAll(Part("new_card"), headers)
<1> DEFINE a4 == PushAll(Part("new_card"), marks)
<1> DEFINE l == PaintCards(s, v)
<1>1. l = ((a1 \o a2) \o a3) \o a4
  BY DEF PaintCards
<1>2. /\ DOMAIN cards \subseteq 0..(count - 1)
      /\ \A i \in DOMAIN cards :
           /\ IsRect(cards[i]) /\ cards[i].y = zone.y /\ cards[i].h = zone.h
           /\ \A j \in DOMAIN cards : i # j => Apart(cards[i], cards[j])
      /\ add = {} \/ \E r : add = {r} /\ IsRect(r) /\ r.y = zone.y /\ r.h = zone.h
  <2>1. IsRect(zone) /\ MetricsOK(m)
    BY DEF Sensible
  <2>2. v.columns = CardColumns(zone, m, count, s.strip.active)
    BY DEF Columns
  <2> DEFINE active == s.strip.active
  <2>3. active \in 0..(count - 1) /\ count \in Nat
    OBVIOUS
  <2> HIDE DEF zone, m, count, active
  <2>4. /\ DOMAIN cards \subseteq 0..(count - 1)
        /\ \A i \in DOMAIN cards :
             /\ IsRect(cards[i]) /\ cards[i].y = zone.y /\ cards[i].h = zone.h
             /\ \A j \in DOMAIN cards : i # j => Apart(cards[i], cards[j])
        /\ v.columns.add = {} \/ \E r : v.columns.add = {r} /\ IsRect(r) /\ r.y = zone.y /\ r.h = zone.h
    <3> DEFINE columns == CardColumns(zone, m, count, active)
    <3>1. v.columns = columns
      BY <2>2 DEF active
    <3>2. /\ DOMAIN columns.cards \subseteq 0..(count - 1)
          /\ columns.add = {} \/ \E r : columns.add = {r} /\ IsRect(r) /\ r.y = zone.y /\ r.h = zone.h
      BY <2>1, <2>3, ColumnsAreApart
    <3>3. \A i \in DOMAIN columns.cards :
            /\ IsRect(columns.cards[i]) /\ columns.cards[i].y = zone.y /\ columns.cards[i].h = zone.h
            /\ \A j \in DOMAIN columns.cards : i # j => Apart(columns.cards[i], columns.cards[j])
      BY <2>1, <2>3, ColumnsAreApart
    <3> HIDE DEF columns
    <3> QED BY <3>1, <3>2, <3>3
  <2> QED BY <2>4
<1> DEFINE on(i) == ContainsPoint(cards[i], p)
<1> DEFINE onAdd == \E r \in add : ContainsPoint(r, p)
<1> DEFINE hits(i) == {t \in DOMAIN v.tiles[i] : ContainsPoint(v.tiles[i][t], p)}
<1> DEFINE hit(i) == IF hits(i) = {} THEN OnCard(i) ELSE OnCardTile(i, CHOOSE t \in hits(i) : TRUE)
<1>3. ASSUME NEW i \in DOMAIN cards
      PROVE  /\ piece(i) \in Seq(Painting)
             /\ rows /\ ~on(i) => Only(piece(i), p, h)
             /\ on(i) /\ h = hit(i) => Shows(piece(i), p, h)
  <2> DEFINE card == cards[i]
  <2> DEFINE tiles == v.tiles[i]
  <2> DEFINE number == s.items[s.strip.tabs[i + 1]]
  <2>1. i \in Nat /\ i + 1 \in 1..count /\ IsRect(card) /\ card.y = zone.y /\ card.h = zone.h
    BY <1>2
  <2>2. number \in Nat
    BY <2>1
  <2>3. tiles = LayoutTiles(card, m, number)
    BY DEF TilesOf
  <2>4. /\ MetricsOK(m) /\ m.focus_width <= m.card_pad /\ m.focus_width <= card.w
        /\ s.theme.fonts.size_tile \in Int /\ s.theme.fonts.size_card \in Int
    BY DEF Sensible
  <2>5. (rows <=> (card.y <= p.y /\ p.y < Bottom(card))) /\ (on(i) => card.y <= p.y /\ p.y < Bottom(card))
    BY <2>1 DEF Bottom, ContainsPoint
  <2> HIDE DEF number, card, tiles, rows
  <2>6. LET q == PaintCard(s, i, card, tiles)
            found == {t \in DOMAIN tiles : ContainsPoint(tiles[t], p)}
            it  == IF found = {} THEN OnCard(i) ELSE OnCardTile(i, CHOOSE t \in found : TRUE)
        IN  /\ q \in Seq(Painting)
            /\ card.y <= p.y /\ p.y < Bottom(card) =>
                 /\ ~ContainsPoint(card, p) => Only(q, p, h)
                 /\ ContainsPoint(card, p) /\ h = it => Shows(q, p, h)
    BY <2>1, <2>2, <2>3, <2>4, CardShows DEF m
  <2> QED BY <2>5, <2>6 DEF card, tiles
<1>4. ASSUME NEW i \in DOMAIN cards, on(i), NEW j \in DOMAIN cards, on(j) PROVE i = j
  <2> SUFFICES ASSUME i # j PROVE FALSE
    OBVIOUS
  <2>1. Apart(cards[i], cards[j]) /\ cards[i] \in AnyRect /\ cards[j] \in AnyRect
    BY <1>2, RectIsAny
  <2> QED BY <1>4, <2>1, OneAtATime
<1>5. HitCards(v, p) =
        IF onAdd THEN Part("new_card")
        ELSE IF ~\E i \in DOMAIN cards : on(i) THEN Part("desktop")
        ELSE hit(CHOOSE i \in {j \in DOMAIN cards : on(j)} : TRUE)
  <2> DEFINE found == {i \in DOMAIN cards : on(i)}
  <2> DEFINE card == CHOOSE i \in found : TRUE
  <2>1. HitCards(v, p) = IF onAdd THEN Part("new_card") ELSE IF found = {} THEN Part("desktop")
                         ELSE IF hits(card) = {} THEN OnCard(card)
                         ELSE OnCardTile(card, CHOOSE t \in hits(card) : TRUE)
    BY DEF HitCards
  <2>2. found = {} <=> ~\E i \in DOMAIN cards : on(i)
    OBVIOUS
  <2> HIDE DEF onAdd, on
  <2> QED BY <2>1, <2>2
<1> HIDE DEF piece, hit
<1>6. ASSUME NEW i \in DOMAIN cards, on(i), ~onAdd PROVE HitCards(v, p) = hit(i)
  <2> DEFINE found == {j \in DOMAIN cards : on(j)}
  <2>1. found = {i}
    BY <1>4, <1>6
  <2> HIDE DEF found, on, onAdd
  <2>2. (CHOOSE j \in found : TRUE) = i
    BY <2>1
  <2> QED BY <1>5, <1>6, <2>2 DEF found
<1>7. \A k \in 1..count : f[k] = IF k - 1 \in DOMAIN cards THEN piece(k - 1) ELSE << >>
  OBVIOUS
<1>8. f \in [1..count -> Seq(Painting)]
  BY <1>3, NothingIsShown
<1> HIDE DEF f, cards
<1>9. /\ a1 \in Seq(Painting)
      /\ rows /\ (\A i \in DOMAIN cards : ~on(i)) => Only(a1, p, h)
      /\ \A i \in DOMAIN cards : on(i) /\ rows /\ h = hit(i) => Shows(a1, p, h)
  <2> HIDE DEF on, rows, hits
  <2>1. ASSUME rows, NEW k \in 1..count, k - 1 \in DOMAIN cards => ~on(k - 1) PROVE Only(f[k], p, h)
    BY <1>3, <1>7, <2>1, NothingIsShown
  <2>2. ASSUME NEW i \in DOMAIN cards, on(i), rows, h = hit(i)
        PROVE  Shows(a1, p, h)
    <3> DEFINE k == i + 1
    <3>1. k \in 1..count /\ k - 1 = i
      BY <1>2
    <3>2. f[k] = piece(i)
      BY <1>7, <3>1
    <3> HIDE DEF k
    <3>3. Shows(f[k], p, h)
      BY <1>3, <2>2, <3>2
    <3>4. \A j \in 1..count : k < j => Only(f[j], p, h)
      <4> SUFFICES ASSUME NEW j \in 1..count, k < j PROVE Only(f[j], p, h)
        OBVIOUS
      <4>1. j - 1 # i
        BY <3>1
      <4>2. j - 1 \in DOMAIN cards => ~on(j - 1)
        BY <1>4, <2>2, <4>1
      <4> QED BY <2>1, <2>2, <4>2
    <3> QED BY <1>8, <3>1, <3>3, <3>4, PiecesShow
  <2>3. ASSUME rows, \A i \in DOMAIN cards : ~on(i) PROVE Only(a1, p, h)
    <3>1. \A k \in 1..count : Only(f[k], p, h)
      BY <2>1, <2>3
    <3> QED BY <1>8, <3>1, PiecesShow
  <2>4. a1 \in Seq(Painting)
    BY <1>8, PiecesShow
  <2> QED BY <2>2, <2>3, <2>4
<1> DEFINE fits(rs) == rs \in SUBSET AnyRect /\ IsFiniteSet(rs)
<1> DEFINE inside == rows => \A q \in headers \cup marks : ContainsPoint(q, p) => onAdd
<1>10. fits(add) /\ fits(headers) /\ fits(marks) /\ inside
  <2> HIDE DEF add
  <2>1. CASE add = {}
    <3>1. headers = {} /\ marks = {}
      BY <2>1
    <3> QED BY <2>1, <3>1, FewAreFinite
  <2>2. ASSUME NEW r, add = {r}, IsRect(r), r.y = zone.y, r.h = zone.h
        PROVE  fits(add) /\ fits(headers) /\ fits(marks) /\ inside
    <3>1. headers = {CardHeader(r, m)} /\ marks = PlusMark(r, m)
      BY <2>2
    <3>2. MetricsOK(m) /\ r \in AnyRect
      BY <2>2, RectIsAny DEF Sensible
    <3> HIDE DEF headers, marks, m
    <3>3. CardHeader(r, m) \in AnyRect /\ Beside(CardHeader(r, m), r)
      <4>1. /\ r.x \in Int /\ r.y \in Int /\ r.w \in Int /\ r.h \in Int
            /\ Most(m.card_header, 0) \in Int
        BY <3>2 DEF AnyRect, Most, MetricsOK
      <4> QED BY <4>1, RectIsPlain DEF CardHeader, Rect, Beside, Right
    <3>4. PlusMark(r, m) \in SUBSET AnyRect /\ IsFiniteSet(PlusMark(r, m))
          /\ \A q \in PlusMark(r, m) : Beside(q, r)
      BY <2>2, <3>2, PlusFits
    <3>5. IsFiniteSet({r}) /\ IsFiniteSet({CardHeader(r, m)})
      BY FewAreFinite
    <3>6. rows => r.y <= p.y /\ p.y < Bottom(r)
      BY <2>2 DEF Bottom
    <3> HIDE DEF rows, zone
    <3>7. rows => \A q \in headers \cup marks : ContainsPoint(q, p) => ContainsPoint(r, p)
      BY <3>1, <3>2, <3>3, <3>4, <3>6, BesideIsOn
    <3> QED BY <2>2, <3>1, <3>2, <3>3, <3>4, <3>5, <3>7
  <2> QED BY <1>2, <2>1, <2>2
<1>11. Part("new_card") \in Hits
  BY HitsAreHits DEF Places
<1>12. /\ a2 \in Seq(Painting) /\ a3 \in Seq(Painting) /\ a4 \in Seq(Painting)
       /\ rows /\ (onAdd => h = Part("new_card"))
            => Only(a2, p, h) /\ Only(a3, p, h) /\ Only(a4, p, h)
       /\ onAdd /\ h = Part("new_card") => Shows(a2, p, h)
  <2> HIDE DEF headers, marks, rows
  <2>1. \A r \in add : ContainsPoint(r, p) => onAdd
    OBVIOUS
  <2>2. onAdd => \E r \in add : ContainsPoint(r, p)
    OBVIOUS
  <2> HIDE DEF onAdd, add
  <2> QED BY <1>10, <1>11, <2>1, <2>2, PushAllShows
<1> DEFINE onCard == \E i \in DOMAIN cards : on(i)
<1>13. ASSUME rows, h = HitCards(v, p)
       PROVE  \/ onAdd /\ h = Part("new_card")
              \/ ~onAdd /\ Shows(a1, p, h)
              \/ ~onAdd /\ h = Part("desktop") /\ Only(a1, p, h)
  <2>1. CASE onAdd
    BY <1>5, <1>13, <2>1
  <2>2. CASE ~onAdd /\ onCard
    <3>1. PICK i \in DOMAIN cards : on(i)
      BY <2>2
    <3> HIDE DEF on, onAdd, rows, hits, add, a1
    <3>2. h = hit(i)
      BY <1>6, <1>13, <2>2, <3>1
    <3> QED BY <1>9, <1>13, <2>2, <3>1, <3>2
  <2>3. CASE ~onAdd /\ ~onCard
    <3> HIDE DEF on, onAdd, rows, hits, add, a1
    <3> QED BY <1>5, <1>9, <1>13, <2>3
  <2> QED BY <2>1, <2>2, <2>3
<1> HIDE DEF a1, a2, a3, a4, l, rows, onAdd
<1> DEFINE b2 == a1 \o a2
<1> DEFINE b3 == b2 \o a3
<1>14. l = b3 \o a4
  BY <1>1
<1>15. /\ b2 \in Seq(Painting)
       /\ Only(a1, p, h) /\ Only(a2, p, h) => Only(b2, p, h)
       /\ Shows(a1, p, h) /\ Only(a2, p, h) => Shows(b2, p, h)
       /\ Shows(a2, p, h) => Shows(b2, p, h)
  BY <1>9, <1>12, AfterAnother
<1> HIDE DEF b2
<1>16. /\ b3 \in Seq(Painting)
       /\ Only(b2, p, h) /\ Only(a3, p, h) => Only(b3, p, h)
       /\ Shows(b2, p, h) /\ Only(a3, p, h) => Shows(b3, p, h)
  BY <1>12, <1>15, AfterAnother
<1> HIDE DEF b3
<1>17. /\ l \in Seq(Painting)
       /\ Only(b3, p, h) /\ Only(a4, p, h) => Only(l, p, h)
       /\ Shows(b3, p, h) /\ Only(a4, p, h) => Shows(l, p, h)
  BY <1>12, <1>14, <1>16, AfterAnother
<1>18. ASSUME rows, h = HitCards(v, p)
       PROVE  Shows(l, p, h) \/ (h = Part("desktop") /\ Only(l, p, h))
  <2>1. Only(a2, p, h) /\ Only(a3, p, h) /\ Only(a4, p, h)
    BY <1>12, <1>13, <1>18
  <2>2. Shows(a1, p, h) \/ Shows(a2, p, h) \/ (h = Part("desktop") /\ Only(a1, p, h))
    BY <1>12, <1>13, <1>18
  <2> QED BY <1>15, <1>16, <1>17, <2>1, <2>2
<1> QED BY <1>17, <1>18 DEF rows, l

----------------------------------------------------------------------------
(* A press acts on what is seen                                            *)

\* The shortcuts of a card are counted.
LEMMA ItemsFacts ==
  ASSUME ScreenInv
  PROVE  \A i \in 1..Len(strip.tabs) : Screenful.items[strip.tabs[i]] \in Nat
<1> DEFINE items == Screenful.items
<1>1. items = [id \in 0..(strip.next_id - 1) |-> IF id < 4 THEN PlaceholderItems[id + 1] ELSE 0]
  BY DEF Screenful
<1> SUFFICES ASSUME NEW i \in 1..Len(strip.tabs) PROVE items[strip.tabs[i]] \in Nat
  OBVIOUS
<1> DEFINE id == strip.tabs[i]
<1>2. id \in Nat /\ id < strip.next_id /\ strip.next_id \in Nat
  BY ScreenFacts DEF ScreenInv, CardsOK, StripOK, HandlesDistinct, Strips, Elements
<1>3. \A k \in 0..3 : PlaceholderItems[k + 1] \in Nat
  BY DEF PlaceholderItems
<1> HIDE DEF id, items
<1>4. items[id] = IF id < 4 THEN PlaceholderItems[id + 1] ELSE 0
  BY <1>1, <1>2
<1>5. id < 4 => id \in 0..3
  BY <1>2
<1> QED BY <1>3, <1>4, <1>5 DEF id, items

\* A point of the screen is in one of its zones.
LEMMA OneZone ==
  ASSUME NEW a \in Areas, theme \in {Sanitised(t, "pointer") : t \in RawThemes},
         NEW p, p.x \in Int, p.y \in Int, ContainsPoint(a, p)
  PROVE  LET z == ZonesOf(a, theme)
         IN  /\ z.top_bar.y <= p.y /\ p.y < Bottom(z.bottom_bar)
             /\ ~(ContainsPoint(z.top_bar, p) /\ ContainsPoint(z.bottom_bar, p))
             /\ ~ContainsPoint(z.top_bar, p) /\ ~ContainsPoint(z.bottom_bar, p)
                  => z.apps.y <= p.y /\ p.y < Bottom(z.apps)
<1> DEFINE z == ZonesOf(a, theme)
<1> DEFINE top == z.top_bar
<1> DEFINE apps == z.apps
<1> DEFINE bottom == z.bottom_bar
<1>1. IsRect(a) /\ IsRect(top) /\ IsRect(apps) /\ IsRect(bottom) /\ Covers(z, a)
  BY ZonesFacts
<1>2. top.x = a.x /\ top.w = a.w /\ bottom.x = a.x /\ bottom.w = a.w
  <2>1. BarHeights(theme.metrics).top \in Int /\ BarHeights(theme.metrics).bottom \in Int
    BY ThemeFacts DEF MetricsOK, BarHeights
  <2>2. \A zone \in {top, apps, bottom} : zone.x = a.x /\ zone.w = a.w
    BY <1>1, <2>1, ZonesFit DEF ZonesOf
  <2> HIDE DEF top, apps, bottom
  <2> QED BY <2>2
<1>3. top.y = a.y /\ apps.y = Bottom(top) /\ bottom.y = Bottom(apps) /\ Bottom(bottom) = Bottom(a)
  BY <1>1 DEF Covers
<1> HIDE DEF z, top, apps, bottom
<1>4. /\ top.y <= p.y /\ p.y < Bottom(bottom)
      /\ ~(ContainsPoint(top, p) /\ ContainsPoint(bottom, p))
      /\ ~ContainsPoint(top, p) /\ ~ContainsPoint(bottom, p) => apps.y <= p.y /\ p.y < Bottom(apps)
  BY <1>1, <1>2, <1>3 DEF IsRect, ContainsPoint, Right, Bottom
<1> QED BY <1>4 DEF z, top, apps, bottom

\* What the view of the screen is made of.
LEMMA ViewFacts ==
  ASSUME ScreenInv
  PROVE  LET s == Screenful
             v == View(s)
         IN  /\ v.zones = s.zones /\ s.zones = ZonesOf(area, theme) /\ s.area = area
             /\ v.top = TopBarLayout(v.zones.top_bar)
             /\ v.chips = BottomBarLayout(v.zones.bottom_bar, Len(Bar(windows, Screen)))
             /\ Len(Bar(windows, Screen)) \in Nat
             /\ v.placed = Layout(s) /\ v.columns = Columns(s)
             /\ v.tiles = [i \in DOMAIN v.columns.cards |-> TilesOf(s, i, v.columns.cards[i])]
             /\ s.windows = windows /\ s.look = look /\ s.strip = strip /\ s.theme = theme
<1>1. Len(Bar(windows, Screen)) \in Nat
  BY PlacedAreLive DEF ScreenInv, Sound
<1>2. Screenful.windows = windows /\ Screenful.look = look /\ Screenful.strip = strip
      /\ Screenful.theme = theme /\ Screenful.zones = ZonesOf(area, theme) /\ Screenful.area = area
  BY DEF Screenful
<1> QED BY <1>1, <1>2 DEF View, Chips

\* The six parts of the display list, and what each shows at a point of the
\* screen: the part that shows what a press is on is over every other that is
\* painted there.
LEMMA PressIsOnWhatIsSeen ==
  ASSUME ScreenInv, NEW v, v = View(Screenful), NothingFullscreen(v), RoomForTheMarks(v),
         NEW p, p.x \in Int, p.y \in Int
  PROVE  LET l == DisplayList(Screenful, v)
         IN  l \in Seq(Painting) /\ (ContainsPoint(area, p) => HitTest(v, p) = Seen(l, p))
<1> DEFINE s == Screenful
<1> DEFINE h == HitTest(v, p)
<1> DEFINE A == Push(Part("desktop"), s.area)
<1> DEFINE B == PaintCards(s, v)
<1> DEFINE C == PaintWindows(s, v, FALSE)
<1> DEFINE D == PaintTopBar(v)
<1> DEFINE E == PaintBottomBar(s, v)
<1> DEFINE F == PaintWindows(s, v, TRUE)
<1> DEFINE l == DisplayList(s, v)
<1>1. l = ((((A \o B) \o C) \o D) \o E) \o F
  BY DEF DisplayList
<1> DEFINE z == v.zones
<1> DEFINE top == z.top_bar
<1> DEFINE bottom == z.bottom_bar
<1> DEFINE apps == z.apps
<1> DEFINE hits == {i \in DOMAIN v.placed : ContainsPoint(v.placed[i].rect, p)}
<1>2. /\ IsRect(area) /\ IsRect(top) /\ IsRect(apps) /\ IsRect(bottom) /\ z = ZonesOf(area, theme)
      /\ s.zones = z /\ s.area = area
  BY ViewFacts, ZonesFacts DEF ScreenInv
<1>3. h = IF ContainsPoint(top, p) THEN HitTopBar(v, p)
          ELSE IF ContainsPoint(bottom, p) THEN HitBottomBar(v, p)
          ELSE IF hits # {} THEN OnWindow(v.placed[Max(hits)].window)
          ELSE HitCards(v, p)
  BY DEF HitTest
<1>4. /\ A \in Seq(Painting)
      /\ ContainsPoint(area, p) /\ h = Part("desktop") => Shows(A, p, h)
  <2>1. Part("desktop") \in Hits /\ area \in AnyRect
    BY <1>2, HitsAreHits, RectIsAny DEF Places
  <2> HIDE DEF h
  <2> QED BY <1>2, <2>1, PushShows
<1>5. /\ B \in Seq(Painting)
      /\ apps.y <= p.y /\ p.y < Bottom(apps) /\ h = HitCards(v, p) =>
           Shows(B, p, h) \/ (h = Part("desktop") /\ Only(B, p, h))
  <2>1. Sensible(s)
    BY ScreenIsSensible
  <2>2. /\ Len(s.strip.tabs) \in Nat /\ s.strip.active \in 0..(Len(s.strip.tabs) - 1)
        /\ \A i \in 1..Len(s.strip.tabs) : s.items[s.strip.tabs[i]] \in Nat
        /\ s.theme.fonts.size_tile \in Int /\ s.theme.fonts.size_card \in Int
    BY ViewFacts, ScreenFacts, ItemsFacts, ThemeFacts DEF ScreenInv
  <2>3. /\ v.columns = Columns(s)
        /\ v.tiles = [i \in DOMAIN v.columns.cards |-> TilesOf(s, i, v.columns.cards[i])]
        /\ s.theme.metrics.focus_width <= s.theme.metrics.card_pad
        /\ \A i \in DOMAIN v.columns.cards : s.theme.metrics.focus_width <= v.columns.cards[i].w
    BY ViewFacts DEF RoomForTheMarks
  <2> HIDE DEF s, h
  <2> QED BY <1>2, <2>1, <2>2, <2>3, CardsShow
<1>6. /\ C \in Seq(Painting) /\ F \in Seq(Painting) /\ Only(F, p, h)
      /\ hits = {} => Only(C, p, h)
      /\ hits # {} /\ h = OnWindow(v.placed[Max(hits)].window) => Shows(C, p, h)
  <2>1. Sensible(s) /\ v.placed = Layout(s)
    BY ScreenIsSensible, ViewFacts
  <2>2. DOMAIN v.placed = 1..Len(v.placed)
    BY <2>1, LayoutIsLive
  <2>3. \A i \in DOMAIN v.placed : ~s.look[v.placed[i].window].fullscreen
    BY <2>2, ViewFacts DEF NothingFullscreen, Elements
  <2>4. \A i \in DOMAIN v.placed :
          v.placed[i].window = s.windows.focus => /\ s.theme.metrics.focus_width <= v.placed[i].rect.w
                                                  /\ s.theme.metrics.focus_width <= v.placed[i].rect.h
    BY <2>2, ViewFacts DEF RoomForTheMarks, Elements
  <2> HIDE DEF s, h
  <2> QED BY <2>1, <2>3, <2>4, WindowsShow
<1>7. /\ D \in Seq(Painting)
      /\ top.y <= p.y =>
           /\ ~ContainsPoint(top, p) => Only(D, p, h)
           /\ ContainsPoint(top, p) /\ h = HitTopBar(v, p) => Shows(D, p, h)
  <2>1. v.top = TopBarLayout(top)
    BY ViewFacts
  <2> DEFINE corner == Point(top.x, top.y)
  <2>2. corner.x \in Int /\ corner.y \in Int /\ top.y <= corner.y
    BY <1>2 DEF IsRect, Point
  <2> HIDE DEF h, corner
  <2>3. D \in Seq(Painting)
    BY <1>2, <2>1, <2>2, TopBarShows
  <2> QED BY <1>2, <2>1, <2>3, TopBarShows
<1>8. /\ E \in Seq(Painting)
      /\ p.y < Bottom(bottom) =>
           /\ ~ContainsPoint(bottom, p) => Only(E, p, h)
           /\ ContainsPoint(bottom, p) /\ h = HitBottomBar(v, p) => Shows(E, p, h)
  <2> DEFINE count == Len(Bar(windows, Screen))
  <2>1. count \in Nat /\ v.chips = BottomBarLayout(bottom, count)
    BY ViewFacts
  <2>2. \A i \in DOMAIN v.chips : FocusMarkH <= v.chips[i].h
    BY DEF RoomForTheMarks
  <2> DEFINE corner == Point(bottom.x, bottom.y - 1)
  <2>3. corner.x \in Int /\ corner.y \in Int /\ corner.y < Bottom(bottom)
    BY <1>2 DEF IsRect, Point, Bottom
  <2> HIDE DEF h, corner, s, count
  <2>4. E \in Seq(Painting)
    BY <1>2, <2>1, <2>2, <2>3, BottomBarShows
  <2> QED BY <1>2, <2>1, <2>2, <2>4, BottomBarShows
<1>9. ContainsPoint(area, p) =>
        /\ top.y <= p.y /\ p.y < Bottom(bottom)
        /\ ~(ContainsPoint(top, p) /\ ContainsPoint(bottom, p))
        /\ ~ContainsPoint(top, p) /\ ~ContainsPoint(bottom, p) => apps.y <= p.y /\ p.y < Bottom(apps)
  BY <1>2, OneZone DEF ScreenInv
<1> HIDE DEF A, B, C, D, E, F, l, h, s, hits, z
<1> DEFINE b2 == A \o B
<1> DEFINE b3 == b2 \o C
<1> DEFINE b4 == b3 \o D
<1> DEFINE b5 == b4 \o E
<1>10. l = b5 \o F
  BY <1>1
<1>11. /\ b2 \in Seq(Painting)
       /\ Shows(A, p, h) /\ Only(B, p, h) => Shows(b2, p, h)
       /\ Shows(B, p, h) => Shows(b2, p, h)
  BY <1>4, <1>5, AfterAnother
<1> HIDE DEF b2
<1>12. /\ b3 \in Seq(Painting)
       /\ Shows(b2, p, h) /\ Only(C, p, h) => Shows(b3, p, h)
       /\ Shows(C, p, h) => Shows(b3, p, h)
  BY <1>6, <1>11, AfterAnother
<1> HIDE DEF b3
<1>13. /\ b4 \in Seq(Painting)
       /\ Shows(b3, p, h) /\ Only(D, p, h) => Shows(b4, p, h)
       /\ Shows(D, p, h) => Shows(b4, p, h)
  BY <1>7, <1>12, AfterAnother
<1> HIDE DEF b4
<1>14. /\ b5 \in Seq(Painting)
       /\ Shows(b4, p, h) /\ Only(E, p, h) => Shows(b5, p, h)
       /\ Shows(E, p, h) => Shows(b5, p, h)
  BY <1>8, <1>13, AfterAnother
<1> HIDE DEF b5
<1>15. l \in Seq(Painting) /\ (Shows(b5, p, h) => Shows(l, p, h))
  BY <1>6, <1>10, <1>14, AfterAnother
<1>16. ASSUME ContainsPoint(area, p) PROVE Shows(l, p, h)
  <2>1. CASE ContainsPoint(top, p)
    BY <1>3, <1>7, <1>8, <1>9, <1>13, <1>14, <1>15, <1>16, <2>1
  <2>2. CASE ~ContainsPoint(top, p) /\ ContainsPoint(bottom, p)
    BY <1>3, <1>8, <1>9, <1>14, <1>15, <1>16, <2>2
  <2>3. CASE ~ContainsPoint(top, p) /\ ~ContainsPoint(bottom, p) /\ hits # {}
    BY <1>3, <1>6, <1>7, <1>8, <1>9, <1>12, <1>13, <1>14, <1>15, <1>16, <2>3
  <2>4. CASE ~ContainsPoint(top, p) /\ ~ContainsPoint(bottom, p) /\ hits = {}
    <3>1. h = HitCards(v, p) /\ apps.y <= p.y /\ p.y < Bottom(apps)
      BY <1>3, <1>9, <1>16, <2>4
    <3>2. Shows(b2, p, h)
      BY <1>4, <1>5, <1>11, <1>16, <3>1
    <3> QED BY <1>6, <1>7, <1>8, <1>9, <1>12, <1>13, <1>14, <1>15, <1>16, <2>4, <3>2
  <2> QED BY <2>1, <2>2, <2>3, <2>4
<1>17. ContainsPoint(area, p) => h = Seen(l, p)
  BY <1>15, <1>16, ShownIsSeen
<1> QED BY <1>15, <1>17 DEF l, h, s

LEMMA PressHolds == ScreenInv => PressActsOnWhatIsSeen
<1> SUFFICES ASSUME ScreenInv, NEW sight \in Sights, NothingFullscreen(sight.view),
                    RoomForTheMarks(sight.view), NEW p \in Probes(sight.list)
             PROVE  HitTest(sight.view, p) = Seen(sight.list, p)
  BY DEF PressActsOnWhatIsSeen
<1> DEFINE v == sight.view
<1> DEFINE l == sight.list
<1>1. v = View(Screenful) /\ l = DisplayList(Screenful, v)
  BY DEF Sights
<1> HIDE DEF v, l
<1>2. l \in Seq(Painting)
  <2>1. Point(0, 0).x \in Int /\ Point(0, 0).y \in Int
    BY DEF Point
  <2> QED BY <1>1, <2>1, PressIsOnWhatIsSeen DEF v
<1>3. p.x \in Int /\ p.y \in Int /\ ContainsPoint(area, p)
  <2>1. PICK e \in Elements(l) : p \in {Point(e.rect.x, e.rect.y), Point(Right(e.rect), Bottom(e.rect)),
                                        Point(Right(e.rect) - 1, Bottom(e.rect) - 1)}
    BY DEF Probes, l
  <2>2. e.rect \in AnyRect
    <3>1. PICK i \in 1..Len(l) : e = l[i]
      BY DEF Elements
    <3>2. l[i] \in Painting
      BY <1>2, <3>1
    <3> QED BY <3>1, <3>2 DEF Painting
  <2>3. p.x \in Int /\ p.y \in Int
    BY <2>1, <2>2 DEF Point, Right, Bottom, AnyRect
  <2> QED BY <2>3 DEF Probes
<1> QED BY <1>1, <1>3, PressIsOnWhatIsSeen DEF v, l

\* hit_test and paint.rs read the same arithmetic: on every screen, with every
\* theme and every set of windows none of which is fullscreen, a press acts on
\* what is seen where it is, wherever the marks of focus have room.
THEOREM PressesActOnWhatIsSeen == Spec => []PressActsOnWhatIsSeen
<1> QED BY ScreenSpecInv, PressHolds, PTL

\* The same of every point of the screen, where TLC asks for the corners of
\* what is painted.
PressActsEverywhere ==
  LET v == View(Screenful)
  IN  NothingFullscreen(v) /\ RoomForTheMarks(v) =>
        \A x, y \in Int : ContainsPoint(area, Point(x, y)) =>
          HitTest(v, Point(x, y)) = Seen(DisplayList(Screenful, v), Point(x, y))

\* core/input.rs hit_test: there is no point of the screen at which a press
\* acts on anything but what is seen.
THEOREM NoPressGoesAstray == Spec => []PressActsEverywhere
<1>1. ASSUME ScreenInv PROVE PressActsEverywhere
  <2> DEFINE v == View(Screenful)
  <2> SUFFICES ASSUME NothingFullscreen(v), RoomForTheMarks(v), NEW x \in Int, NEW y \in Int,
                      ContainsPoint(area, Point(x, y))
               PROVE  HitTest(v, Point(x, y)) = Seen(DisplayList(Screenful, v), Point(x, y))
    BY DEF PressActsEverywhere
  <2>1. Point(x, y).x \in Int /\ Point(x, y).y \in Int
    BY DEF Point
  <2> HIDE DEF v
  <2> QED BY <1>1, <2>1, PressIsOnWhatIsSeen DEF v
<1> QED BY <1>1, ScreenSpecInv, PTL

----------------------------------------------------------------------------
(* Words: how wide they are                                                *)

\* The function Widths is written with exists: on every beginning of a text
\* there is one that obeys the recursion.
LEMMA WidthsFacts ==
  ASSUME NEW text \in Seq(DOMAIN Advance \cup {Newline})
  PROVE  /\ DOMAIN Widths(text) = 0..Len(text)
         /\ Widths(text)[0] = 0
         /\ \A i \in 1..Len(text) :
              Widths(text)[i] = IF text[i] = Newline THEN 0
                                ELSE Widths(text)[i - 1] + Advance[text[i]]
         /\ \A i \in 0..Len(text) : Widths(text)[i] \in Nat
<1> DEFINE Rec(f, n) == IF n = 0 THEN 0 ELSE IF text[n] = Newline THEN 0
                        ELSE f[n - 1] + Advance[text[n]]
<1> DEFINE Obeys(f, m) == f = [n \in 0..m |-> Rec(f, n)]
<1> DEFINE T == {m \in Nat : \E f : Obeys(f, m)}
<1>1. 0 \in T
  <2>1. Obeys([n \in 0..0 |-> 0], 0)
    OBVIOUS
  <2> QED BY <2>1
<1>2. ASSUME NEW m \in Nat, m \in T PROVE m + 1 \in T
  <2>1. PICK f : Obeys(f, m)
    BY <1>2
  <2>2. DOMAIN f = 0..m /\ \A n \in 0..m : f[n] = Rec(f, n)
    BY <2>1
  <2> DEFINE e == Rec(f, m + 1)
  <2> DEFINE g == [n \in 0..(m + 1) |-> IF n = m + 1 THEN e ELSE f[n]]
  <2> HIDE DEF e
  <2>3. g[m + 1] = e /\ \A n \in 0..m : g[n] = f[n]
    OBVIOUS
  <2>4. DOMAIN g = 0..(m + 1) /\ g = [n \in 0..(m + 1) |-> g[n]]
    OBVIOUS
  <2> HIDE DEF g
  <2>5. ASSUME NEW n \in 0..(m + 1) PROVE g[n] = Rec(g, n)
    <3>1. CASE n = m + 1
      BY <3>1, <2>3, m \in 0..m DEF e
    <3>2. CASE n # m + 1
      <4>1. n \in 0..m /\ (n # 0 => n - 1 \in 0..m)
        BY <3>2
      <4>2. f[n] = Rec(f, n)
        BY <2>2, <4>1
      <4> QED BY <4>1, <4>2, <2>3
    <3> QED BY <3>1, <3>2
  <2>6. Obeys(g, m + 1)
    BY <2>4, <2>5, Zenon
  <2>7. m + 1 \in Nat
    OBVIOUS
  <2> HIDE DEF Obeys, g
  <2> QED BY <2>6, <2>7
<1>3. Nat \subseteq T
  <2> HIDE DEF T
  <2> QED BY <1>1, <1>2, SetInduction
<1>4. \E f : Obeys(f, Len(text))
  BY <1>3, Len(text) \in Nat
<1> DEFINE h == CHOOSE f : Obeys(f, Len(text))
<1>5. Obeys(h, Len(text))
  BY <1>4
<1>6. Widths(text) = h
  BY DEF Widths
<1>7. DOMAIN h = 0..Len(text) /\ \A n \in 0..Len(text) : h[n] = Rec(h, n)
  BY <1>5
<1> HIDE DEF h
<1>8. h[0] = 0 /\ \A n \in 1..Len(text) : n \in 0..Len(text) /\ n # 0
  BY <1>7, Len(text) \in Nat
<1> DEFINE N == {i \in Nat : i <= Len(text) => h[i] \in Nat}
<1>9. Nat \subseteq N
  <2>1. 0 \in N
    BY <1>8
  <2>2. ASSUME NEW i \in Nat, i \in N PROVE i + 1 \in N
    <3> SUFFICES ASSUME i + 1 <= Len(text) PROVE h[i + 1] \in Nat
      OBVIOUS
    <3>1. h[i] \in Nat /\ i + 1 \in 1..Len(text) /\ i + 1 \in 0..Len(text) /\ (i + 1) - 1 = i
      BY <2>2, Len(text) \in Nat
    <3>2. text[i + 1] \in DOMAIN Advance \cup {Newline}
      BY <3>1
    <3>3. h[i + 1] = IF text[i + 1] = Newline THEN 0 ELSE h[i] + Advance[text[i + 1]]
      BY <1>7, <3>1
    <3> QED BY <3>1, <3>2, <3>3, AdvanceAssumption
  <2> HIDE DEF N
  <2> QED BY <2>1, <2>2, SetInduction
<1>10. \A i \in 0..Len(text) : h[i] \in Nat
  BY <1>9, Len(text) \in Nat
<1> QED BY <1>6, <1>7, <1>8, <1>10

\* What a title is made of.
Letters == DOMAIN Advance \cup {Newline}

LEMMA LargestWidth ==
  ASSUME NEW n \in Nat, NEW f, \A i \in 0..n : f[i] \in Nat
  PROVE  \E w \in {f[i] : i \in 0..n} : \A v \in {f[i] : i \in 0..n} : v <= w
<1> DEFINE T == {m \in Nat : m <= n => \E i \in 0..m : \A j \in 0..m : f[j] <= f[i]}
<1>1. 0 \in T
  <2>1. 0 \in 0..0 /\ \A j \in 0..0 : j = 0
    OBVIOUS
  <2>2. f[0] <= f[0]
    OBVIOUS
  <2> QED BY <2>1, <2>2
<1>2. ASSUME NEW m \in Nat, m \in T PROVE m + 1 \in T
  <2> SUFFICES ASSUME m + 1 <= n PROVE \E i \in 0..(m + 1) : \A j \in 0..(m + 1) : f[j] <= f[i]
    OBVIOUS
  <2>1. PICK i \in 0..m : \A j \in 0..m : f[j] <= f[i]
    BY <1>2
  <2>2. f[i] \in Nat /\ f[m + 1] \in Nat /\ \A j \in 0..m : f[j] \in Nat
    OBVIOUS
  <2>3. \A j \in 0..(m + 1) : j \in 0..m \/ j = m + 1
    OBVIOUS
  <2>4. CASE f[m + 1] <= f[i]
    BY <2>1, <2>2, <2>3, <2>4
  <2>5. CASE f[m + 1] > f[i]
    <3>1. \A j \in 0..(m + 1) : f[j] <= f[m + 1]
      BY <2>1, <2>2, <2>3, <2>5
    <3> QED BY <3>1
  <2> QED BY <2>2, <2>4, <2>5
<1>3. Nat \subseteq T
  <2> HIDE DEF T
  <2> QED BY <1>1, <1>2, SetInduction
<1>4. PICK i \in 0..n : \A j \in 0..n : f[j] <= f[i]
  BY <1>3
<1> QED BY <1>4

\* How wide a text is, is how wide one of its beginnings is.
LEMMA MeasureFacts ==
  ASSUME NEW text \in Seq(Letters), NEW size \in Nat
  PROVE  \E w \in Nat :
           /\ \E i \in 0..Len(text) : w = Widths(text)[i]
           /\ \A i \in 0..Len(text) : Widths(text)[i] <= w
           /\ Measure(text, size) = Ceil(size * w, 3)
<1> DEFINE widths == {Widths(text)[i] : i \in 0..Len(text)}
<1> DEFINE best == CHOOSE w \in widths : \A v \in widths : v <= w
<1>1. \A i \in 0..Len(text) : Widths(text)[i] \in Nat
  BY WidthsFacts DEF Letters
<1>2. Len(text) \in Nat
  OBVIOUS
<1>3. \E w \in widths : \A v \in widths : v <= w
  BY <1>1, <1>2, LargestWidth
<1>4. best \in widths /\ \A v \in widths : v <= best
  <2> HIDE DEF widths
  <2> QED BY <1>3
<1>5. Measure(text, size) = Ceil(size * best, 3)
  BY DEF Measure
<1> HIDE DEF best
<1>6. best \in Nat /\ \E i \in 0..Len(text) : best = Widths(text)[i]
  BY <1>1, <1>4
<1> QED BY <1>4, <1>5, <1>6

LEMMA CeilGrows ==
  ASSUME NEW size \in Nat, NEW v \in Nat, NEW w \in Nat, v <= w
  PROVE  /\ Ceil(size * v, 3) \in Nat /\ Ceil(size * w, 3) \in Nat
         /\ Ceil(size * v, 3) <= Ceil(size * w, 3)
<1>1. size * v \in Nat /\ size * w \in Nat /\ size * v <= size * w
  BY ProductGrows
<1> DEFINE a == size * v
<1> DEFINE b == size * w
<1> HIDE DEF a, b
<1>2. a \in Nat /\ b \in Nat /\ a <= b
  BY <1>1 DEF a, b
<1>3. Ceil(a, 3) \in Nat /\ Ceil(b, 3) \in Nat /\ Ceil(a, 3) <= Ceil(b, 3)
  BY <1>2 DEF Ceil
<1> QED BY <1>3 DEF a, b

LEMMA MeasureIsNat ==
  ASSUME NEW text \in Seq(Letters), NEW size \in Nat
  PROVE  Measure(text, size) \in Nat
<1>1. PICK w \in Nat : Measure(text, size) = Ceil(size * w, 3)
  BY MeasureFacts
<1> QED BY <1>1, CeilGrows

OneLine(text) == \A i \in 1..Len(text) : text[i] # Newline

LEMMA OneLineFacts ==
  ASSUME NEW text \in Seq(Letters), Cardinality(Starts(text)) = 1
  PROVE  OneLine(text)
<1> SUFFICES ASSUME NEW i \in 1..Len(text), text[i] = Newline PROVE FALSE
  BY DEF OneLine
<1>1. 1 \in Starts(text) /\ i + 1 \in Starts(text) /\ i + 1 # 1
  BY DEF Starts
<1>2. Starts(text) \subseteq 1..(Len(text) + 1)
  BY DEF Starts
<1>3. IsFiniteSet(Starts(text))
  <2>1. IsFiniteSet(1..(Len(text) + 1))
    BY FS_Interval, Len(text) + 1 \in Int
  <2> QED BY <1>2, <2>1, FS_Subset
<1>4. PICK x : Starts(text) = {x}
  BY <1>3, FS_Singleton
<1> QED BY <1>1, <1>4

\* A line only grows.
LEMMA OneLineGrows ==
  ASSUME NEW text \in Seq(Letters), OneLine(text)
  PROVE  \A j \in 0..Len(text) : \A i \in 0..j : Widths(text)[i] <= Widths(text)[j]
<1> DEFINE w == Widths(text)
<1>1. /\ w[0] = 0 /\ \A i \in 0..Len(text) : w[i] \in Nat
      /\ \A i \in 1..Len(text) : w[i] = IF text[i] = Newline THEN 0 ELSE w[i - 1] + Advance[text[i]]
  BY WidthsFacts DEF Letters
<1> HIDE DEF w
<1> DEFINE T == {j \in Nat : j <= Len(text) => \A i \in 0..j : w[i] <= w[j]}
<1>2. 0 \in T
  <2>1. \A i \in 0..0 : i = 0
    OBVIOUS
  <2> QED BY <1>1, <2>1
<1>3. ASSUME NEW j \in Nat, j \in T PROVE j + 1 \in T
  <2> SUFFICES ASSUME j + 1 <= Len(text), NEW i \in 0..(j + 1) PROVE w[i] <= w[j + 1]
    OBVIOUS
  <2>1. /\ j + 1 \in 1..Len(text) /\ (j + 1) - 1 = j /\ j \in 0..Len(text)
        /\ j + 1 \in 0..Len(text) /\ i \in 0..Len(text)
    BY Len(text) \in Nat
  <2>2. text[j + 1] \in DOMAIN Advance
    BY <2>1 DEF OneLine, Letters
  <2>3. w[j + 1] = w[j] + Advance[text[j + 1]]
    BY <1>1, <2>1 DEF OneLine
  <2>4. Advance[text[j + 1]] \in Nat
    BY <2>2, AdvanceAssumption
  <2>5. w[j] <= w[j + 1]
    BY <1>1, <2>1, <2>3, <2>4
  <2>6. CASE i = j + 1
    BY <1>1, <2>1, <2>6
  <2>7. CASE i # j + 1
    <3>1. w[i] <= w[j]
      BY <1>3, <2>1, <2>7
    <3> QED BY <1>1, <2>1, <2>5, <3>1
  <2> QED BY <2>6, <2>7
<1>4. Nat \subseteq T
  <2> HIDE DEF T
  <2> QED BY <1>2, <1>3, SetInduction
<1> QED BY <1>4, Len(text) \in Nat DEF w

----------------------------------------------------------------------------
(* Words: cutting                                                          *)

LEMMA CutIsAText ==
  ASSUME NEW text \in Seq(Letters), NEW n \in 0..Len(text)
  PROVE  /\ Cut(text, n) \in Seq(Letters) /\ Len(Cut(text, n)) = n + 1
         /\ \A i \in 1..n : Cut(text, n)[i] = text[i]
         /\ Cut(text, n)[n + 1] = Ellipsis
<1>1. Ellipsis \in Letters
  BY AdvanceAssumption DEF Letters
<1> DEFINE s == SubSeq(text, 1, n)
<1>2. s \in Seq(Letters) /\ Len(s) = n /\ \A i \in 1..n : s[i] = text[i]
  OBVIOUS
<1> HIDE DEF s
<1> DEFINE e == Ellipsis
<1> HIDE DEF e
<1>3. Append(s, e) \in Seq(Letters) /\ Len(Append(s, e)) = n + 1
  BY <1>1, <1>2 DEF e
<1>4. /\ \A i \in 1..n : Append(s, e)[i] = s[i]
      /\ Append(s, e)[n + 1] = e
  BY <1>1, <1>2
<1> QED BY <1>2, <1>3, <1>4 DEF Cut, s, e

\* The beginning is as wide as it was, and then comes the ellipsis.
LEMMA CutWidths ==
  ASSUME NEW text \in Seq(Letters), NEW n \in 0..Len(text)
  PROVE  /\ \A i \in 0..n : Widths(Cut(text, n))[i] = Widths(text)[i]
         /\ Widths(Cut(text, n))[n + 1] = Widths(text)[n] + Advance[Ellipsis]
<1> DEFINE cut == Cut(text, n)
<1>1. /\ cut \in Seq(Letters) /\ Len(cut) = n + 1
      /\ \A i \in 1..n : cut[i] = text[i]
      /\ cut[n + 1] = Ellipsis
  BY CutIsAText
<1> HIDE DEF cut
<1> DEFINE v == Widths(cut)
<1> DEFINE w == Widths(text)
<1>2. /\ w[0] = 0
      /\ \A i \in 1..Len(text) : w[i] = IF text[i] = Newline THEN 0 ELSE w[i - 1] + Advance[text[i]]
  BY WidthsFacts DEF Letters
<1>3. /\ v[0] = 0
      /\ \A i \in 1..Len(cut) : v[i] = IF cut[i] = Newline THEN 0 ELSE v[i - 1] + Advance[cut[i]]
  BY <1>1, WidthsFacts DEF Letters
<1> HIDE DEF v, w
<1> DEFINE T == {i \in Nat : i <= n => v[i] = w[i]}
<1>4. 0 \in T
  BY <1>2, <1>3
<1>5. ASSUME NEW i \in Nat, i \in T PROVE i + 1 \in T
  <2> SUFFICES ASSUME i + 1 <= n PROVE v[i + 1] = w[i + 1]
    OBVIOUS
  <2>1. v[i] = w[i] /\ i + 1 \in 1..n /\ i + 1 \in 1..Len(text) /\ i + 1 \in 1..Len(cut) /\ (i + 1) - 1 = i
    BY <1>1, <1>5
  <2>2. v[i + 1] = IF cut[i + 1] = Newline THEN 0 ELSE v[i] + Advance[cut[i + 1]]
    BY <1>3, <2>1
  <2>3. w[i + 1] = IF text[i + 1] = Newline THEN 0 ELSE w[i] + Advance[text[i + 1]]
    BY <1>2, <2>1
  <2> QED BY <1>1, <2>1, <2>2, <2>3
<1>6. Nat \subseteq T
  <2> HIDE DEF T
  <2> QED BY <1>4, <1>5, SetInduction
<1>7. \A i \in 0..n : v[i] = w[i]
  BY <1>6
<1>8. v[n + 1] = w[n] + Advance[Ellipsis]
  <2>1. Ellipsis # Newline
    BY DEF Ellipsis, Newline
  <2>2. n + 1 \in 1..Len(cut) /\ (n + 1) - 1 = n
    BY <1>1
  <2>3. v[n + 1] = v[n] + Advance[Ellipsis]
    BY <1>1, <1>3, <2>1, <2>2
  <2> QED BY <1>7, <2>3
<1> QED BY <1>7, <1>8 DEF v, w, cut

\* In one line, the more is left the wider it is.
LEMMA CutsGrow ==
  ASSUME NEW text \in Seq(Letters), OneLine(text), NEW size \in Nat,
         NEW n \in 0..Len(text), NEW m \in 0..n
  PROVE  Measure(Cut(text, m), size) <= Measure(Cut(text, n), size)
<1> DEFINE W(i) == Widths(text)[i] + Advance[Ellipsis]
<1>1. Advance[Ellipsis] \in Nat /\ Len(text) \in Nat
  BY AdvanceAssumption
<1>2. \A i \in 0..Len(text) : Widths(text)[i] \in Nat
  BY WidthsFacts DEF Letters
<1>3. ASSUME NEW k \in 0..Len(text)
      PROVE  Measure(Cut(text, k), size) = Ceil(size * W(k), 3)
  <2> DEFINE cut == Cut(text, k)
  <2>1. cut \in Seq(Letters) /\ Len(cut) = k + 1
    BY CutIsAText
  <2>2. PICK w \in Nat :
          /\ \E i \in 0..Len(cut) : w = Widths(cut)[i]
          /\ \A i \in 0..Len(cut) : Widths(cut)[i] <= w
          /\ Measure(cut, size) = Ceil(size * w, 3)
    BY <2>1, MeasureFacts
  <2>3. \A i \in 0..k : Widths(cut)[i] = Widths(text)[i]
    BY CutWidths
  <2>4. Widths(cut)[k + 1] = W(k)
    BY CutWidths
  <2>5. \A i \in 0..k : Widths(text)[i] <= Widths(text)[k]
    BY OneLineGrows
  <2>6. \A i \in 0..k : Widths(cut)[i] <= W(k)
    BY <1>1, <1>2, <2>3, <2>5
  <2>7. W(k) \in Nat
    BY <1>1, <1>2
  <2> HIDE DEF cut, W
  <2>8. k + 1 \in 0..Len(cut) /\ \A i \in 0..Len(cut) : i \in 0..k \/ i = k + 1
    BY <2>1
  <2>9. W(k) <= w
    BY <2>2, <2>4, <2>8
  <2>10. w <= W(k)
    BY <2>2, <2>4, <2>6, <2>7, <2>8
  <2>11. w = W(k)
    BY <2>2, <2>7, <2>9, <2>10
  <2> QED BY <2>2, <2>11 DEF cut
<1>4. m \in 0..Len(text) /\ W(m) \in Nat /\ W(n) \in Nat
  BY <1>1, <1>2
<1>5. W(m) <= W(n)
  <2>1. Widths(text)[m] <= Widths(text)[n]
    BY OneLineGrows
  <2> QED BY <1>1, <1>2, <1>4, <2>1
<1> HIDE DEF W
<1>6. Ceil(size * W(m), 3) <= Ceil(size * W(n), 3)
  BY <1>4, <1>5, CeilGrows
<1> QED BY <1>3, <1>4, <1>6

----------------------------------------------------------------------------
(* Words: the search                                                       *)

\* One step of the search between two bounds, with the answers f between
\* closer ones.
Probe(f, text, size, max_w, lo, hi) ==
  LET mid == (lo + hi + 1) \div 2
  IN  IF lo >= hi THEN lo
      ELSE IF WidthFits(text, mid, size, max_w) THEN f[<<mid, hi>>] ELSE f[<<lo, mid - 1>>]

\* The function Search is written with exists, on every two bounds.
LEMMA SearchRec ==
  ASSUME NEW text, Len(text) \in Nat, NEW size, NEW max_w
  PROVE  \E f : /\ Search(text, size, max_w) = f[<<0, Len(text)>>]
                /\ \A lo, hi \in 0..Len(text) :
                     f[<<lo, hi>>] = Probe(f, text, size, max_w, lo, hi)
<1> DEFINE L == Len(text)
<1> DEFINE P == (0..L) \X (0..L)
<1> DEFINE Rec(f, p) == Probe(f, text, size, max_w, p[1], p[2])
<1> DEFINE Obeys(f, m) == \A p \in P : p[2] - p[1] <= m => f[p] = Rec(f, p)
<1> DEFINE T == {m \in Nat : \E f : f = [p \in P |-> f[p]] /\ Obeys(f, m)}
<1>0. \A p \in P : p[1] \in 0..L /\ p[2] \in 0..L /\ p = <<p[1], p[2]>>
  OBVIOUS
<1>1. 0 \in T
  <2> DEFINE f == [p \in P |-> p[1]]
  <2>1. f = [p \in P |-> f[p]]
    OBVIOUS
  <2>2. ASSUME NEW p \in P, p[2] - p[1] <= 0 PROVE f[p] = Rec(f, p)
    BY <1>0, <2>2 DEF Probe
  <2>3. Obeys(f, 0)
    BY <2>2
  <2> HIDE DEF f, Obeys
  <2> QED BY <2>1, <2>3
<1>a. ASSUME NEW p \in P, NEW f, NEW g, NEW m \in Nat, p[2] - p[1] <= m + 1,
             \A q \in P : q[2] - q[1] <= m => f[q] = g[q]
      PROVE  Rec(f, p) = Rec(g, p)
  <2> DEFINE lo == p[1]
  <2> DEFINE hi == p[2]
  <2> DEFINE mid == (lo + hi + 1) \div 2
  <2>1. lo \in 0..L /\ hi \in 0..L
    BY <1>0
  <2>2. CASE lo >= hi
    BY <2>2 DEF Probe
  <2>3. CASE ~(lo >= hi)
    <3>1. hi - lo <= m + 1
      BY <1>a
    <3> HIDE DEF lo, hi
    <3>2. mid \in 0..L /\ mid - 1 \in 0..L /\ lo < mid /\ mid <= hi
      BY <2>1, <2>3
    <3>3. hi - mid <= m /\ (mid - 1) - lo <= m
      BY <2>1, <3>1, <3>2
    <3> HIDE DEF mid
    <3>4. <<mid, hi>> \in P /\ <<lo, mid - 1>> \in P
      BY <2>1, <3>2
    <3>5. <<mid, hi>>[1] = mid /\ <<mid, hi>>[2] = hi /\ <<lo, mid - 1>>[1] = lo /\ <<lo, mid - 1>>[2] = mid - 1
      OBVIOUS
    <3> HIDE DEF P
    <3>6. f[<<mid, hi>>] = g[<<mid, hi>>]
      BY <1>a, <3>3, <3>4, <3>5
    <3>7. f[<<lo, mid - 1>>] = g[<<lo, mid - 1>>]
      BY <1>a, <3>3, <3>4, <3>5
    <3> QED BY <2>3, <3>6, <3>7 DEF Probe, mid, lo, hi
  <2> QED BY <2>2, <2>3
<1> HIDE DEF Rec
<1>2. ASSUME NEW m \in Nat, m \in T PROVE m + 1 \in T
  <2>1. PICK f : f = [p \in P |-> f[p]] /\ Obeys(f, m)
    BY <1>2
  <2> DEFINE r(p) == Rec(f, p)
  <2> HIDE DEF r
  <2> DEFINE g == [p \in P |-> IF p[2] - p[1] <= m THEN f[p] ELSE r(p)]
  <2>2. \A p \in P : g[p] = IF p[2] - p[1] <= m THEN f[p] ELSE r(p)
    OBVIOUS
  <2>3. g = [p \in P |-> g[p]]
    OBVIOUS
  <2> HIDE DEF g
  <2>4. \A q \in P : q[2] - q[1] <= m => f[q] = g[q]
    BY <2>2
  <2>5. ASSUME NEW p \in P, p[2] - p[1] <= m + 1 PROVE g[p] = Rec(g, p)
    <3>1. Rec(f, p) = Rec(g, p)
      BY <1>a, <2>4, <2>5
    <3>2. CASE p[2] - p[1] <= m
      BY <2>1, <2>2, <3>1, <3>2
    <3>3. CASE ~(p[2] - p[1] <= m)
      BY <2>2, <3>1, <3>3 DEF r
    <3> QED BY <3>2, <3>3
  <2>6. Obeys(g, m + 1)
    BY <2>5
  <2>7. m + 1 \in Nat
    OBVIOUS
  <2> HIDE DEF Obeys
  <2> QED BY <2>3, <2>6, <2>7
<1>3. Nat \subseteq T
  <2> HIDE DEF T
  <2> QED BY <1>1, <1>2, SetInduction
<1>4. PICK f : f = [p \in P |-> f[p]] /\ Obeys(f, L)
  BY <1>3
<1>5. \A p \in P : p[2] - p[1] <= L
  BY <1>0
<1>6. f = [p \in P |-> Rec(f, p)]
  <2>1. \A p \in P : f[p] = Rec(f, p)
    BY <1>4, <1>5
  <2> QED BY <1>4, <2>1
<1> DEFINE h == CHOOSE g : g = [p \in P |-> Rec(g, p)]
<1>7. h = [p \in P |-> Rec(h, p)]
  BY <1>6
<1>8. Search(text, size, max_w) = h[<<0, L>>]
  BY DEF Search, Rec, Probe
<1> HIDE DEF h
<1>9. ASSUME NEW lo \in 0..L, NEW hi \in 0..L PROVE h[<<lo, hi>>] = Probe(h, text, size, max_w, lo, hi)
  <2>1. <<lo, hi>> \in P /\ <<lo, hi>>[1] = lo /\ <<lo, hi>>[2] = hi
    OBVIOUS
  <2>2. h[<<lo, hi>>] = Rec(h, <<lo, hi>>)
    BY <1>7, <2>1
  <2> QED BY <2>1, <2>2 DEF Rec
<1> QED BY <1>8, <1>9

\* The search ends between its bounds at a cut that fits; where fewer
\* characters fit whenever more do, none longer fits.
LEMMA SearchFacts ==
  ASSUME NEW text, Len(text) \in Nat, NEW size, NEW max_w, WidthFits(text, 0, size, max_w)
  PROVE  LET n == Search(text, size, max_w)
             Fits(m) == WidthFits(text, m, size, max_w)
         IN  /\ n \in 0..Len(text) /\ Fits(n)
             /\ (\A m \in 0..Len(text) : \A l \in 0..m : Fits(m) => Fits(l)) =>
                  \A m \in 0..Len(text) : Fits(m) => m <= n
<1> DEFINE L == Len(text)
<1> DEFINE Fits(m) == WidthFits(text, m, size, max_w)
<1> DEFINE Downward == \A m \in 0..L : \A l \in 0..m : Fits(m) => Fits(l)
<1> DEFINE Best(n, lo, hi) == /\ n \in lo..hi /\ Fits(n)
                              /\ Downward => \A m \in lo..hi : Fits(m) => m <= n
<1>1. PICK f : /\ Search(text, size, max_w) = f[<<0, L>>]
               /\ \A lo, hi \in 0..L : f[<<lo, hi>>] = Probe(f, text, size, max_w, lo, hi)
  BY SearchRec
<1> DEFINE T == {k \in Nat : \A lo, hi \in 0..L :
                   lo <= hi /\ hi - lo <= k /\ Fits(lo) => Best(f[<<lo, hi>>], lo, hi)}
<1>2. ASSUME NEW lo \in 0..L, Fits(lo) PROVE Best(f[<<lo, lo>>], lo, lo)
  <2>1. f[<<lo, lo>>] = lo
    <3>1. f[<<lo, lo>>] = Probe(f, text, size, max_w, lo, lo)
      BY <1>1
    <3> QED BY <3>1 DEF Probe
  <2> QED BY <1>2, <2>1
<1>3. 0 \in T
  <2> HIDE DEF Best, Fits
  <2>1. \A lo, hi \in 0..L : lo <= hi /\ hi - lo <= 0 => lo = hi
    OBVIOUS
  <2> QED BY <1>2, <2>1
<1>4. ASSUME NEW k \in Nat, k \in T PROVE k + 1 \in T
  <2> SUFFICES ASSUME NEW lo \in 0..L, NEW hi \in 0..L, lo <= hi, hi - lo <= k + 1, Fits(lo)
               PROVE  Best(f[<<lo, hi>>], lo, hi)
    OBVIOUS
  <2> DEFINE mid == (lo + hi + 1) \div 2
  <2>1. CASE lo = hi
    BY <1>2, <2>1
  <2>2. CASE lo # hi
    <3>1. /\ mid \in 0..L /\ mid - 1 \in 0..L /\ lo < mid /\ mid <= hi
          /\ hi - mid <= k /\ (mid - 1) - lo <= k /\ lo <= mid - 1
      BY <2>2
    <3>2. f[<<lo, hi>>] = IF Fits(mid) THEN f[<<mid, hi>>] ELSE f[<<lo, mid - 1>>]
      BY <1>1, <2>2 DEF Probe
    <3> HIDE DEF mid, Fits
    <3>3. CASE Fits(mid)
      <4>1. Best(f[<<mid, hi>>], mid, hi)
        <5> HIDE DEF Best
        <5> QED BY <1>4, <3>1, <3>3
      <4>2. f[<<lo, hi>>] \in mid..hi /\ Fits(f[<<lo, hi>>])
        BY <3>2, <3>3, <4>1
      <4>3. Downward => \A m \in lo..hi : Fits(m) => m <= f[<<lo, hi>>]
        <5> SUFFICES ASSUME Downward, NEW m \in lo..hi, Fits(m) PROVE m <= f[<<lo, hi>>]
          OBVIOUS
        <5>1. CASE m \in mid..hi
          BY <3>2, <3>3, <4>1, <5>1
        <5>2. CASE m < mid
          BY <3>1, <4>2, <5>2
        <5> QED BY <3>1, <5>1, <5>2
      <4>4. f[<<lo, hi>>] \in lo..hi
        BY <3>1, <4>2
      <4> QED BY <4>2, <4>3, <4>4
    <3>4. CASE ~Fits(mid)
      <4>1. Best(f[<<lo, mid - 1>>], lo, mid - 1)
        <5> HIDE DEF Best
        <5> QED BY <1>4, <3>1, <3>4
      <4>2. f[<<lo, hi>>] \in lo..(mid - 1) /\ Fits(f[<<lo, hi>>])
        BY <3>2, <3>4, <4>1
      <4>3. Downward => \A m \in lo..hi : Fits(m) => m <= f[<<lo, hi>>]
        <5> SUFFICES ASSUME Downward, NEW m \in lo..hi, Fits(m) PROVE m <= f[<<lo, hi>>]
          OBVIOUS
        <5>1. CASE m <= mid - 1
          BY <3>1, <3>2, <3>4, <4>1, <5>1
        <5>2. CASE ~(m <= mid - 1)
          <6>1. mid \in 0..m /\ m \in 0..L
            BY <3>1, <5>2
          <6> QED BY <3>4, <6>1
        <5> QED BY <5>1, <5>2
      <4>4. f[<<lo, hi>>] \in lo..hi
        BY <3>1, <4>2
      <4> QED BY <4>2, <4>3, <4>4
    <3> QED BY <3>3, <3>4
  <2> QED BY <2>1, <2>2
<1>5. Nat \subseteq T
  <2> HIDE DEF T
  <2> QED BY <1>3, <1>4, SetInduction
<1>6. Best(f[<<0, L>>], 0, L)
  <2> HIDE DEF Best
  <2>1. 0 \in 0..L /\ L \in 0..L /\ L - 0 <= L /\ Fits(0)
    OBVIOUS
  <2> QED BY <1>5, <2>1
<1> QED BY <1>1, <1>6

\* What is drawn of a text is no wider than its box; of one line it is the
\* whole of it, or the longest beginning that leaves room for the ellipsis.
LEMMA FitFacts ==
  ASSUME NEW text \in Seq(Letters), NEW size \in Nat, NEW max_w \in Nat,
         NEW drawn, drawn = Fit(text, size, max_w), drawn # << >>
  PROVE  /\ drawn \in Seq(Letters) /\ Measure(drawn, size) <= max_w
         /\ Measure(text, size) <= max_w => drawn = text
         /\ OneLine(text) /\ ~(Measure(text, size) <= max_w) =>
              \E n \in 0..Len(text) :
                /\ drawn = Cut(text, n) /\ Measure(Cut(text, n), size) <= max_w
                /\ \A m \in 0..Len(text) : Measure(Cut(text, m), size) <= max_w => m <= n
<1> DEFINE n == Search(text, size, max_w)
<1>1. CASE Measure(text, size) <= max_w
  BY <1>1 DEF Fit
<1>2. CASE ~(Measure(text, size) <= max_w)
  <2>1. ~(Measure(<<Ellipsis>>, size) > max_w) /\ drawn = Cut(text, n)
    BY <1>2 DEF Fit
  <2>2. Len(text) \in Nat /\ 0 \in 0..Len(text)
    OBVIOUS
  <2>3. Cut(text, 0) = <<Ellipsis>>
    <3>1. Cut(text, 0) \in Seq(Letters) /\ Len(Cut(text, 0)) = 1 /\ Cut(text, 0)[1] = Ellipsis
      <4>1. Cut(text, 0) \in Seq(Letters) /\ Len(Cut(text, 0)) = 0 + 1 /\ Cut(text, 0)[0 + 1] = Ellipsis
        BY <2>2, CutIsAText
      <4> QED BY <4>1
    <3> QED BY <3>1
  <2>4. Measure(Cut(text, 0), size) \in Nat
    BY <2>2, CutIsAText, MeasureIsNat
  <2>5. WidthFits(text, 0, size, max_w)
    BY <2>1, <2>3, <2>4 DEF WidthFits
  <2>6. /\ n \in 0..Len(text) /\ WidthFits(text, n, size, max_w)
        /\ (\A m \in 0..Len(text) : \A l \in 0..m :
              WidthFits(text, m, size, max_w) => WidthFits(text, l, size, max_w)) =>
             \A m \in 0..Len(text) : WidthFits(text, m, size, max_w) => m <= n
    BY <2>2, <2>5, SearchFacts
  <2> HIDE DEF n
  <2>7. drawn \in Seq(Letters) /\ Measure(drawn, size) <= max_w
    BY <2>1, <2>6, CutIsAText DEF WidthFits
  <2>8. ASSUME OneLine(text), NEW m \in 0..Len(text), NEW l \in 0..m,
               WidthFits(text, m, size, max_w)
        PROVE  WidthFits(text, l, size, max_w)
    <3>1. l \in 0..Len(text)
      OBVIOUS
    <3>2. Measure(Cut(text, l), size) <= Measure(Cut(text, m), size)
      BY <2>8, CutsGrow
    <3>3. Measure(Cut(text, l), size) \in Nat /\ Measure(Cut(text, m), size) \in Nat
      BY <3>1, CutIsAText, MeasureIsNat
    <3> QED BY <2>8, <3>2, <3>3 DEF WidthFits
  <2>9. OneLine(text) => \A m \in 0..Len(text) : WidthFits(text, m, size, max_w) => m <= n
    BY <2>6, <2>8
  <2> QED BY <1>2, <2>1, <2>6, <2>7, <2>9 DEF WidthFits
<1> QED BY <1>1, <1>2

----------------------------------------------------------------------------
(* Words: what a run is painted as                                         *)

\* The image a key stands for: the key holds all that it depends on.
FromKey(k) ==
  LET text == Fit(k.text, k.size_px, k.max_w)
      w    == Measure(text, k.size_px)
  IN  IF text = << >> \/ w = 0 THEN NoImage
      ELSE [text |-> text, width |-> w, height |-> Height(text, k.size_px), colour |-> k.colour]

\* A run painted without a cache.
Painted(run) ==
  IF IsDrawable(run) /\ FromKey(KeyOf(run)) # NoImage
  THEN Place(run, FromKey(KeyOf(run))) ELSE NoImage

\* What the first n of the runs wanted of the cache.
Wanted(runs, n) == {KeyOf(runs[i]) : i \in {j \in 1..n : Painted(runs[j]) # NoImage}}

\* A cache whose images are their keys' own, each wanted at a time of its own.
CacheOK(c, now) ==
  /\ IsFiniteSet(DOMAIN c) /\ Cardinality(DOMAIN c) <= CacheLimit
  /\ \A k \in DOMAIN c :
       /\ FromKey(k) # NoImage
       /\ c[k] = [image |-> FromKey(k), used |-> c[k].used]
       /\ c[k].used \in 1..now
  /\ \A k, l \in DOMAIN c : c[k].used = c[l].used => k = l

LEMMA SameImage == \A run : Rasterised(run) = FromKey(KeyOf(run))
BY DEF Rasterised, FromKey, KeyOf

LEMMA PlacedIsAnImage ==
  \A run, image : Place(run, image) # NoImage /\ Place(run, image).image = image
<1> SUFFICES ASSUME NEW run, NEW image
             PROVE  Place(run, image) # NoImage /\ Place(run, image).image = image
  OBVIOUS
<1>1. DOMAIN Place(run, image) = {"image", "x", "y"}
  BY DEF Place
<1>2. DOMAIN NoImage = {}
  BY DEF NoImage
<1> QED BY <1>1, <1>2 DEF Place

----------------------------------------------------------------------------
(* Words: the cache                                                        *)

LEMMA OldestFacts ==
  ASSUME NEW c, DOMAIN c # {}, \A k \in DOMAIN c : c[k].used \in Nat
  PROVE  Oldest(c) \in DOMAIN c /\ \A l \in DOMAIN c : c[Oldest(c)].used <= c[l].used
<1> DEFINE T == {c[k].used : k \in DOMAIN c}
<1>1. \E t \in T : \A j \in T : t <= j
  <2>1. T \subseteq Nat /\ T # {}
    OBVIOUS
  <2> HIDE DEF T
  <2> QED BY <2>1, SmallestNat
<1>2. \E k \in DOMAIN c : \A l \in DOMAIN c : c[k].used <= c[l].used
  BY <1>1
<1> QED BY <1>2 DEF Oldest

\* Eviction makes room, and what goes is older than what stays.
LEMMA EvictedFacts ==
  ASSUME NEW now \in Nat, NEW c, CacheOK(c, now)
  PROVE  /\ DOMAIN Evicted(c) \subseteq DOMAIN c
         /\ \A k \in DOMAIN Evicted(c) : Evicted(c)[k] = c[k]
         /\ IsFiniteSet(DOMAIN Evicted(c))
         /\ Cardinality(DOMAIN Evicted(c)) + 1 <= CacheLimit
         /\ \A k \in DOMAIN c \ DOMAIN Evicted(c) :
              /\ Cardinality(DOMAIN c) = CacheLimit
              /\ \A l \in DOMAIN c : c[k].used <= c[l].used
<1>1. CacheLimit \in Nat /\ CacheLimit # 0
  BY LimitAssumption
<1>2. IsFiniteSet(DOMAIN c) /\ Cardinality(DOMAIN c) \in Nat /\ Cardinality(DOMAIN c) <= CacheLimit
  BY FS_CardinalityType DEF CacheOK
<1>3. CASE Cardinality(DOMAIN c) >= CacheLimit
  <2> DEFINE old == Oldest(c)
  <2>1. DOMAIN c # {}
    BY <1>1, <1>2, <1>3, FS_EmptySet
  <2>2. old \in DOMAIN c /\ \A l \in DOMAIN c : c[old].used <= c[l].used
    <3>1. \A k \in DOMAIN c : c[k].used \in Nat
      BY DEF CacheOK
    <3> QED BY <2>1, <3>1, OldestFacts
  <2>3. Evicted(c) = [k \in DOMAIN c \ {old} |-> c[k]]
    BY <1>3 DEF Evicted
  <2> HIDE DEF old
  <2>4. DOMAIN Evicted(c) = DOMAIN c \ {old} /\ \A k \in DOMAIN c \ {old} : Evicted(c)[k] = c[k]
    BY <2>3
  <2>5. /\ IsFiniteSet(DOMAIN c \ {old})
        /\ Cardinality(DOMAIN c \ {old}) = Cardinality(DOMAIN c) - 1
    BY <1>2, <2>2, FS_RemoveElement
  <2>6. Cardinality(DOMAIN c) = CacheLimit
    BY <1>1, <1>2, <1>3
  <2>7. \A k \in DOMAIN c \ DOMAIN Evicted(c) : k = old
    BY <2>4
  <2>8. Cardinality(DOMAIN Evicted(c)) + 1 <= CacheLimit
    BY <2>4, <2>5, <2>6, <1>1
  <2> QED BY <2>2, <2>4, <2>5, <2>6, <2>7, <2>8
<1>4. CASE ~(Cardinality(DOMAIN c) >= CacheLimit)
  <2>1. Evicted(c) = c
    BY <1>4 DEF Evicted
  <2>2. Cardinality(DOMAIN c) + 1 <= CacheLimit
    BY <1>1, <1>2, <1>4
  <2> QED BY <2>1, <2>2, <1>2
<1> QED BY <1>3, <1>4

\* What is remembered is there, with all that was not dropped for it.
LEMMA RememberFacts ==
  ASSUME NEW now \in Nat, NEW c, CacheOK(c, now), NEW key, key \notin DOMAIN c,
         NEW image, image = FromKey(key), image # NoImage,
         NEW d, d = Remember(c, key, image, now + 1)
  PROVE  CacheOK(d, now + 1)
<1> DEFINE e == Evicted(c)
<1>1. /\ DOMAIN e \subseteq DOMAIN c /\ \A k \in DOMAIN e : e[k] = c[k]
      /\ IsFiniteSet(DOMAIN e) /\ Cardinality(DOMAIN e) + 1 <= CacheLimit
  BY EvictedFacts
<1>2. d = [k \in DOMAIN e \cup {key} |->
             IF k = key THEN [image |-> FromKey(key), used |-> now + 1] ELSE e[k]]
  BY DEF Remember
<1> HIDE DEF e
<1>3. DOMAIN d = DOMAIN e \cup {key}
  BY <1>2
<1>4. d[key] = [image |-> FromKey(key), used |-> now + 1]
  BY <1>2
<1>5. \A k \in DOMAIN e : d[k] = c[k]
  BY <1>1, <1>2
<1>6. /\ IsFiniteSet(DOMAIN d)
      /\ Cardinality(DOMAIN d) <= CacheLimit
  <2>1. key \notin DOMAIN e
    BY <1>1
  <2>2. IsFiniteSet(DOMAIN d) /\ Cardinality(DOMAIN d) = Cardinality(DOMAIN e) + 1
    BY <1>1, <1>3, <2>1, FS_AddElement
  <2> QED BY <1>1, <2>2
<1>7. d[key].used = now + 1
  BY <1>4
<1>8. ASSUME NEW k \in DOMAIN d
      PROVE  /\ FromKey(k) # NoImage
             /\ d[k] = [image |-> FromKey(k), used |-> d[k].used]
             /\ d[k].used \in 1..(now + 1)
  <2>1. CASE k = key
    BY <1>4, <1>7, <2>1
  <2>2. CASE k # key
    <3>1. k \in DOMAIN e /\ k \in DOMAIN c
      BY <1>1, <1>3, <2>2
    <3>2. FromKey(k) # NoImage /\ c[k] = [image |-> FromKey(k), used |-> c[k].used] /\ c[k].used \in 1..now
      BY <3>1 DEF CacheOK
    <3>3. d[k] = c[k]
      BY <1>5, <3>1
    <3> QED BY <3>2, <3>3
  <2> QED BY <2>1, <2>2
<1>9. ASSUME NEW k \in DOMAIN d, NEW l \in DOMAIN d, d[k].used = d[l].used PROVE k = l
  <2>1. \A j \in DOMAIN e : d[j] = c[j] /\ j \in DOMAIN c /\ c[j].used \in 1..now
    BY <1>1, <1>5 DEF CacheOK
  <2>2. \A i, j \in DOMAIN c : c[i].used = c[j].used => i = j
    BY DEF CacheOK
  <2>3. \A j \in DOMAIN e : d[j].used # d[key].used
    BY <1>7, <2>1
  <2>4. (k = key \/ k \in DOMAIN e) /\ (l = key \/ l \in DOMAIN e)
    BY <1>3
  <2>5. CASE k = key \/ l = key
    BY <1>9, <2>3, <2>4, <2>5
  <2>6. CASE k \in DOMAIN e /\ l \in DOMAIN e
    BY <1>9, <2>1, <2>2, <2>6
  <2> QED BY <2>4, <2>5, <2>6
<1>10. CacheOK(d, now + 1)
  BY <1>6, <1>8, <1>9 DEF CacheOK
<1> QED BY <1>10


\* An image that is wanted again is the youngest.
LEMMA TouchedFacts ==
  ASSUME NEW now \in Nat, NEW c, CacheOK(c, now), NEW key \in DOMAIN c,
         NEW d, d = Touched(c, key, now + 1)
  PROVE  /\ CacheOK(d, now + 1)
         /\ DOMAIN d = DOMAIN c
         /\ d[key].used = now + 1
         /\ \A k \in DOMAIN c \ {key} : d[k] = c[k]
<1>1. c[key] = [image |-> FromKey(key), used |-> c[key].used] /\ FromKey(key) # NoImage
  BY DEF CacheOK
<1>2. d = [c EXCEPT ![key] = [c[key] EXCEPT !.used = now + 1]]
  BY DEF Touched
<1>3. DOMAIN d = DOMAIN c /\ \A k \in DOMAIN c \ {key} : d[k] = c[k]
  BY <1>2
<1>4. d[key] = [image |-> FromKey(key), used |-> now + 1]
  <2>1. d[key] = [c[key] EXCEPT !.used = now + 1]
    BY <1>2
  <2>2. [[image |-> FromKey(key), used |-> c[key].used] EXCEPT !.used = now + 1]
          = [image |-> FromKey(key), used |-> now + 1]
    OBVIOUS
  <2> QED BY <1>1, <2>1, <2>2
<1>5. d[key].used = now + 1
  BY <1>4
<1>6. ASSUME NEW k \in DOMAIN c
      PROVE  /\ FromKey(k) # NoImage
             /\ d[k] = [image |-> FromKey(k), used |-> d[k].used]
             /\ d[k].used \in 1..(now + 1)
  <2>1. CASE k = key
    BY <1>1, <1>4, <1>5, <2>1
  <2>2. CASE k # key
    <3>1. FromKey(k) # NoImage /\ c[k] = [image |-> FromKey(k), used |-> c[k].used] /\ c[k].used \in 1..now
      BY DEF CacheOK
    <3>2. d[k] = c[k]
      BY <1>3, <2>2
    <3> QED BY <3>1, <3>2
  <2> QED BY <2>1, <2>2
<1>7. ASSUME NEW k \in DOMAIN c, NEW l \in DOMAIN c, d[k].used = d[l].used PROVE k = l
  <2>1. \A j \in DOMAIN c \ {key} : d[j] = c[j] /\ c[j].used \in 1..now
    BY <1>3 DEF CacheOK
  <2>2. \A i, j \in DOMAIN c : c[i].used = c[j].used => i = j
    BY DEF CacheOK
  <2>3. \A j \in DOMAIN c \ {key} : d[j].used # d[key].used
    BY <1>5, <2>1
  <2>4. CASE k = key \/ l = key
    BY <1>7, <2>3, <2>4
  <2>5. CASE k # key /\ l # key
    BY <1>7, <2>1, <2>2, <2>5
  <2> QED BY <2>4, <2>5
<1>8. IsFiniteSet(DOMAIN d) /\ Cardinality(DOMAIN d) <= CacheLimit
  BY <1>3 DEF CacheOK
<1>9. CacheOK(d, now + 1)
  BY <1>3, <1>6, <1>7, <1>8 DEF CacheOK
<1> QED BY <1>3, <1>5, <1>9

----------------------------------------------------------------------------
(* Words: a frame                                                          *)

\* The function Frame is written with exists.
LEMMA FrameFacts ==
  ASSUME NEW runs, Len(runs) \in Nat
  PROVE  /\ Frame(runs)[0] = [cache |-> cache, clock |-> clock, out |-> << >>, made |-> 0]
         /\ \A i \in 1..Len(runs) : Frame(runs)[i] = OneRun(Frame(runs)[i - 1], runs[i])
<1> DEFINE first == [cache |-> cache, clock |-> clock, out |-> << >>, made |-> 0]
<1> HIDE DEF first
<1> DEFINE Rec(f, n) == IF n = 0 THEN first ELSE OneRun(f[n - 1], runs[n])
<1> DEFINE Obeys(f, m) == f = [n \in 0..m |-> Rec(f, n)]
<1> DEFINE T == {m \in Nat : \E f : Obeys(f, m)}
<1>1. 0 \in T
  <2>1. Obeys([n \in 0..0 |-> first], 0)
    OBVIOUS
  <2> QED BY <2>1
<1>2. ASSUME NEW m \in Nat, m \in T PROVE m + 1 \in T
  <2>1. PICK f : Obeys(f, m)
    BY <1>2
  <2>2. DOMAIN f = 0..m /\ \A n \in 0..m : f[n] = Rec(f, n)
    BY <2>1
  <2> DEFINE e == Rec(f, m + 1)
  <2> DEFINE g == [n \in 0..(m + 1) |-> IF n = m + 1 THEN e ELSE f[n]]
  <2> HIDE DEF e
  <2>3. g[m + 1] = e /\ \A n \in 0..m : g[n] = f[n]
    OBVIOUS
  <2>4. DOMAIN g = 0..(m + 1) /\ g = [n \in 0..(m + 1) |-> g[n]]
    OBVIOUS
  <2> HIDE DEF g
  <2>5. ASSUME NEW n \in 0..(m + 1) PROVE g[n] = Rec(g, n)
    <3>1. CASE n = m + 1
      BY <3>1, <2>3, m \in 0..m DEF e
    <3>2. CASE n # m + 1
      <4>1. n \in 0..m /\ (n # 0 => n - 1 \in 0..m)
        BY <3>2
      <4>2. f[n] = Rec(f, n)
        BY <2>2, <4>1
      <4> QED BY <4>1, <4>2, <2>3
    <3> QED BY <3>1, <3>2
  <2>6. Obeys(g, m + 1)
    BY <2>4, <2>5, Zenon
  <2>7. m + 1 \in Nat
    OBVIOUS
  <2> HIDE DEF Obeys, g
  <2> QED BY <2>6, <2>7
<1>3. Nat \subseteq T
  <2> HIDE DEF T
  <2> QED BY <1>1, <1>2, SetInduction
<1>4. \E f : Obeys(f, Len(runs))
  BY <1>3
<1> DEFINE h == CHOOSE f : Obeys(f, Len(runs))
<1>5. Obeys(h, Len(runs))
  BY <1>4
<1>6. Frame(runs) = h
  BY DEF Frame, first
<1>7. \A n \in 0..Len(runs) : h[n] = Rec(h, n)
  BY <1>5
<1> HIDE DEF h
<1>8. \A n \in 1..Len(runs) : n \in 0..Len(runs) /\ n # 0
  OBVIOUS
<1> QED BY <1>6, <1>7, <1>8 DEF first

\* What one run does to a frame, field by field.
LEMMA OneRunFacts ==
  ASSUME NEW c, NEW now \in Nat, NEW o, NEW m \in Nat, NEW run, CacheOK(c, now),
         NEW key, key = KeyOf(run), NEW st,
         st = OneRun([cache |-> c, clock |-> now, out |-> o, made |-> m], run)
  PROVE  /\ st.out = Append(o, Painted(run))
         /\ st = [cache |-> st.cache, clock |-> st.clock, out |-> st.out, made |-> st.made]
         /\ \/ /\ Painted(run) = NoImage /\ st.cache = c /\ st.made = m
               /\ st.clock \in {now, now + 1}
            \/ /\ Painted(run) # NoImage /\ key \in DOMAIN c /\ st.clock = now + 1
               /\ st.cache = Touched(c, key, now + 1) /\ st.made = m
            \/ /\ Painted(run) # NoImage /\ key \notin DOMAIN c /\ st.clock = now + 1
               /\ st.cache = Remember(c, key, FromKey(key), now + 1) /\ st.made = m + 1
               /\ FromKey(key) # NoImage
<1> DEFINE fresh == Rasterised(run)
<1>1. fresh = FromKey(key)
  BY SameImage
<1>2. CASE ~IsDrawable(run)
  <2>1. st = [cache |-> c, clock |-> now, out |-> Append(o, NoImage), made |-> m]
    BY <1>2 DEF OneRun
  <2>2. Painted(run) = NoImage
    BY <1>2 DEF Painted
  <2> QED BY <2>1, <2>2
<1>3. CASE IsDrawable(run) /\ key \in DOMAIN c
  <2>1. c[key] = [image |-> FromKey(key), used |-> c[key].used] /\ FromKey(key) # NoImage
    BY <1>3 DEF CacheOK
  <2>2. c[key].image = FromKey(key)
    BY <2>1
  <2>3. Painted(run) = Place(run, c[key].image) /\ Painted(run) # NoImage
    BY <1>3, <2>1, <2>2, PlacedIsAnImage DEF Painted
  <2>4. st = [cache |-> Touched(c, key, now + 1), clock |-> now + 1,
              out |-> Append(o, Place(run, c[key].image)), made |-> m]
    BY <1>3 DEF OneRun
  <2> QED BY <1>3, <2>3, <2>4
<1>4. CASE IsDrawable(run) /\ key \notin DOMAIN c /\ fresh = NoImage
  <2>1. st = [cache |-> c, clock |-> now + 1, out |-> Append(o, NoImage), made |-> m]
    BY <1>4 DEF OneRun
  <2>2. Painted(run) = NoImage
    BY <1>1, <1>4 DEF Painted
  <2> QED BY <2>1, <2>2
<1>5. CASE IsDrawable(run) /\ key \notin DOMAIN c /\ fresh # NoImage
  <2>1. Painted(run) = Place(run, fresh) /\ Painted(run) # NoImage
    BY <1>1, <1>5, PlacedIsAnImage DEF Painted
  <2>2. st = [cache |-> Remember(c, key, fresh, now + 1), clock |-> now + 1,
              out |-> Append(o, Place(run, fresh)), made |-> m + 1]
    BY <1>5 DEF OneRun
  <2> QED BY <1>1, <1>5, <2>1, <2>2
<1> QED BY <1>2, <1>3, <1>4, <1>5

LEMMA WantedGrows ==
  ASSUME NEW runs, NEW n \in Nat
  PROVE  Wanted(runs, n + 1) = Wanted(runs, n) \cup
           (IF Painted(runs[n + 1]) = NoImage THEN {} ELSE {KeyOf(runs[n + 1])})
<1>1. 1..(n + 1) = 1..n \cup {n + 1}
  OBVIOUS
<1> QED BY <1>1 DEF Wanted

LEMMA WantedIsFinite ==
  ASSUME NEW runs, NEW n \in Nat
  PROVE  IsFiniteSet(Wanted(runs, n))
<1> DEFINE T == {m \in Nat : IsFiniteSet(Wanted(runs, m))}
<1>1. 0 \in T
  <2>1. Wanted(runs, 0) = {}
    BY DEF Wanted
  <2> QED BY <2>1, FS_EmptySet
<1>2. ASSUME NEW m \in Nat, m \in T PROVE m + 1 \in T
  <2>1. IsFiniteSet(Wanted(runs, m))
    BY <1>2
  <2>2. CASE Painted(runs[m + 1]) = NoImage
    <3>1. Wanted(runs, m + 1) = Wanted(runs, m)
      BY <2>2, WantedGrows
    <3> QED BY <2>1, <3>1
  <2>3. CASE Painted(runs[m + 1]) # NoImage
    <3>1. Wanted(runs, m + 1) = Wanted(runs, m) \cup {KeyOf(runs[m + 1])}
      BY <2>3, WantedGrows
    <3>2. IsFiniteSet(Wanted(runs, m) \cup {KeyOf(runs[m + 1])})
      BY <2>1, FS_AddElement
    <3> QED BY <3>1, <3>2
  <2> QED BY <2>2, <2>3
<1>3. Nat \subseteq T
  <2> HIDE DEF T
  <2> QED BY <1>1, <1>2, SetInduction
<1> QED BY <1>3

LEMMA WantedMonotone ==
  ASSUME NEW runs, NEW n \in Nat, NEW m \in Nat, n <= m
  PROVE  /\ Wanted(runs, n) \subseteq Wanted(runs, m)
         /\ Cardinality(Wanted(runs, n)) <= Cardinality(Wanted(runs, m))
<1>1. Wanted(runs, n) \subseteq Wanted(runs, m)
  <2>1. 1..n \subseteq 1..m
    OBVIOUS
  <2> QED BY <2>1 DEF Wanted
<1> QED BY <1>1, WantedIsFinite, FS_Subset

\* A frame whose wishes fit the cache: what the runs so far wanted is there,
\* and it is what was wanted since the frame began.
Warm(runs, n, c) ==
  Cardinality(Wanted(runs, Len(runs))) <= CacheLimit =>
    /\ Wanted(runs, n) \subseteq DOMAIN c
    /\ \A k \in DOMAIN c : k \in Wanted(runs, n) <=> c[k].used > clock

\* A frame that finds all it wants makes nothing.
Still(runs, c, m) ==
  Wanted(runs, Len(runs)) \subseteq DOMAIN cache => m = 0 /\ DOMAIN c = DOMAIN cache

PaintedSoFar(runs, n, o) == o = [i \in 1..n |-> Painted(runs[i])]

\* A frame after n of its runs.
FrameOK(runs, n, st) ==
  /\ st = [cache |-> st.cache, clock |-> st.clock, out |-> st.out, made |-> st.made]
  /\ st.clock \in Nat /\ clock <= st.clock /\ st.made \in Nat
  /\ CacheOK(st.cache, st.clock)
  /\ PaintedSoFar(runs, n, st.out)
  /\ Warm(runs, n, st.cache)
  /\ Still(runs, st.cache, st.made)

LEMMA LaterIsFine ==
  ASSUME NEW c, NEW now \in Nat, NEW then \in Nat, now <= then, CacheOK(c, now)
  PROVE  CacheOK(c, then)
<1>1. 1..now \subseteq 1..then
  OBVIOUS
<1> QED BY <1>1 DEF CacheOK

\* While the wishes of the frame fit the cache, what is dropped for one of
\* them was not wanted in this frame.
LEMMA EvictsTheOld ==
  ASSUME NEW runs, Len(runs) \in Nat, NEW n \in Nat, n + 1 <= Len(runs),
         NEW c, NEW now \in Nat, CacheOK(c, now), clock \in Nat,
         Warm(runs, n, c), Cardinality(Wanted(runs, Len(runs))) <= CacheLimit,
         NEW key, key \notin DOMAIN c, Wanted(runs, n + 1) = Wanted(runs, n) \cup {key}
  PROVE  \A k \in DOMAIN c \ DOMAIN Evicted(c) : k \notin Wanted(runs, n)
<1> SUFFICES ASSUME NEW old \in DOMAIN c \ DOMAIN Evicted(c) PROVE old \notin Wanted(runs, n)
  OBVIOUS
<1>1. CacheLimit \in Nat
  BY LimitAssumption
<1>2. Cardinality(DOMAIN c) = CacheLimit /\ \A l \in DOMAIN c : c[old].used <= c[l].used
  BY EvictedFacts
<1>3. Wanted(runs, n) \subseteq DOMAIN c
  BY DEF Warm
<1>4. IsFiniteSet(Wanted(runs, n)) /\ Cardinality(Wanted(runs, n)) \in Nat
  BY WantedIsFinite, FS_CardinalityType
<1>5. key \notin Wanted(runs, n)
  BY <1>3
<1>6. Cardinality(Wanted(runs, n + 1)) = Cardinality(Wanted(runs, n)) + 1
  BY <1>4, <1>5, FS_AddElement
<1>7. Cardinality(Wanted(runs, n + 1)) <= Cardinality(Wanted(runs, Len(runs)))
  <2>1. n + 1 \in Nat
    OBVIOUS
  <2> QED BY <2>1, WantedMonotone
<1>8. Cardinality(Wanted(runs, Len(runs))) \in Nat
  BY WantedIsFinite, FS_CardinalityType
<1>9. Cardinality(Wanted(runs, n)) < Cardinality(DOMAIN c)
  BY <1>1, <1>2, <1>4, <1>6, <1>7, <1>8
<1>10. PICK spare \in DOMAIN c : spare \notin Wanted(runs, n)
  <2>1. Wanted(runs, n) # DOMAIN c
    BY <1>1, <1>2, <1>4, <1>9
  <2> QED BY <1>3, <2>1
<1>11. /\ old \in Wanted(runs, n) <=> c[old].used > clock
       /\ spare \in Wanted(runs, n) <=> c[spare].used > clock
  BY DEF Warm
<1>12. c[old].used \in Nat /\ c[spare].used \in Nat
  BY DEF CacheOK
<1> QED BY <1>2, <1>10, <1>11, <1>12

LEMMA StaysWarmMaking ==
  ASSUME NEW runs, Len(runs) \in Nat, NEW n \in Nat, n + 1 <= Len(runs),
         NEW now \in Nat, NEW c, CacheOK(c, now), clock \in Nat, clock <= now, Warm(runs, n, c),
         NEW key, key \notin DOMAIN c, Wanted(runs, n + 1) = Wanted(runs, n) \cup {key},
         NEW image, image = FromKey(key), image # NoImage,
         NEW d, d = Remember(c, key, image, now + 1)
  PROVE  CacheOK(d, now + 1) /\ Warm(runs, n + 1, d)
<1>0. CacheOK(d, now + 1)
  BY RememberFacts
<1>1. DOMAIN d = DOMAIN Evicted(c) \cup {key} /\ d[key].used = now + 1
  BY DEF Remember
<1>2. \A k \in DOMAIN Evicted(c) : k \in DOMAIN c /\ d[k] = c[k]
  <2>1. \A k \in DOMAIN Evicted(c) : k \in DOMAIN c /\ Evicted(c)[k] = c[k]
    BY EvictedFacts
  <2> QED BY <2>1 DEF Remember
<1>3. Warm(runs, n + 1, d)
  <2> SUFFICES ASSUME Cardinality(Wanted(runs, Len(runs))) <= CacheLimit
               PROVE  /\ Wanted(runs, n + 1) \subseteq DOMAIN d
                      /\ \A k \in DOMAIN d : k \in Wanted(runs, n + 1) <=> d[k].used > clock
    BY DEF Warm
  <2>1. /\ Wanted(runs, n) \subseteq DOMAIN c
        /\ \A k \in DOMAIN c : k \in Wanted(runs, n) <=> c[k].used > clock
    BY DEF Warm
  <2>2. \A k \in DOMAIN c \ DOMAIN Evicted(c) : k \notin Wanted(runs, n)
    BY EvictsTheOld
  <2>3. now + 1 > clock
    OBVIOUS
  <2>4. ASSUME NEW k \in DOMAIN d
        PROVE  k \in Wanted(runs, n + 1) <=> d[k].used > clock
    <3>1. CASE k = key
      BY <1>1, <2>3, <3>1
    <3>2. CASE k # key
      BY <1>1, <1>2, <2>1, <3>2
    <3> QED BY <3>1, <3>2
  <2> QED BY <1>1, <2>1, <2>2, <2>4
<1> QED BY <1>0, <1>3

LEMMA FrameStep ==
  ASSUME NEW runs, Len(runs) \in Nat, NEW n \in Nat, n + 1 <= Len(runs), clock \in Nat,
         NEW st, FrameOK(runs, n, st)
  PROVE  FrameOK(runs, n + 1, OneRun(st, runs[n + 1]))
<1> DEFINE run == runs[n + 1]
<1> DEFINE key == KeyOf(run)
<1> DEFINE next == OneRun(st, run)
<1> DEFINE c == st.cache
<1> DEFINE now == st.clock
<1> DEFINE m == st.made
<1>1. /\ st = [cache |-> c, clock |-> now, out |-> st.out, made |-> m]
      /\ now \in Nat /\ clock <= now /\ m \in Nat
      /\ CacheOK(c, now) /\ PaintedSoFar(runs, n, st.out)
      /\ Warm(runs, n, c) /\ Still(runs, c, m)
  BY DEF FrameOK
<1>2. /\ next.out = Append(st.out, Painted(run))
      /\ next = [cache |-> next.cache, clock |-> next.clock, out |-> next.out, made |-> next.made]
      /\ \/ /\ Painted(run) = NoImage /\ next.cache = c /\ next.made = m
            /\ next.clock \in {now, now + 1}
         \/ /\ Painted(run) # NoImage /\ key \in DOMAIN c /\ next.clock = now + 1
            /\ next.cache = Touched(c, key, now + 1) /\ next.made = m
         \/ /\ Painted(run) # NoImage /\ key \notin DOMAIN c /\ next.clock = now + 1
            /\ next.cache = Remember(c, key, FromKey(key), now + 1) /\ next.made = m + 1
            /\ FromKey(key) # NoImage
  <2> DEFINE o == st.out
  <2>1. now \in Nat /\ m \in Nat /\ CacheOK(c, now)
        /\ st = [cache |-> c, clock |-> now, out |-> o, made |-> m]
    BY <1>1
  <2>2. key = KeyOf(run) /\ next = OneRun(st, run)
    OBVIOUS
  <2>3. next = OneRun([cache |-> c, clock |-> now, out |-> o, made |-> m], run)
    BY <2>1
  <2> HIDE DEF c, now, m, next, run, key, o
  <2>4. /\ next.out = Append(o, Painted(run))
        /\ next = [cache |-> next.cache, clock |-> next.clock, out |-> next.out, made |-> next.made]
        /\ \/ /\ Painted(run) = NoImage /\ next.cache = c /\ next.made = m
              /\ next.clock \in {now, now + 1}
           \/ /\ Painted(run) # NoImage /\ key \in DOMAIN c /\ next.clock = now + 1
              /\ next.cache = Touched(c, key, now + 1) /\ next.made = m
           \/ /\ Painted(run) # NoImage /\ key \notin DOMAIN c /\ next.clock = now + 1
              /\ next.cache = Remember(c, key, FromKey(key), now + 1) /\ next.made = m + 1
              /\ FromKey(key) # NoImage
    BY <2>1, <2>2, <2>3, OneRunFacts
  <2> QED BY <2>4 DEF o
<1>3. Wanted(runs, n + 1) = Wanted(runs, n) \cup (IF Painted(run) = NoImage THEN {} ELSE {key})
  BY WantedGrows
<1>4. PaintedSoFar(runs, n + 1, next.out)
  <2> DEFINE p(i) == Painted(runs[i])
  <2> DEFINE X == {p(i) : i \in 1..(n + 1)}
  <2>1. st.out = [i \in 1..n |-> p(i)]
    BY <1>1 DEF PaintedSoFar
  <2>2. p(n + 1) = Painted(run)
    OBVIOUS
  <2> HIDE DEF p
  <2>3. st.out \in Seq(X) /\ Len(st.out) = n /\ Painted(run) \in X
    BY <2>1, <2>2
  <2>4. Append(st.out, Painted(run)) = [i \in 1..(n + 1) |-> p(i)]
    <3> HIDE DEF X
    <3>1. DOMAIN Append(st.out, Painted(run)) = 1..(n + 1)
      BY <2>3
    <3>2. ASSUME NEW i \in 1..(n + 1) PROVE Append(st.out, Painted(run))[i] = p(i)
      BY <2>1, <2>2, <2>3
    <3>3. Append(st.out, Painted(run)) \in Seq(X)
      BY <2>3
    <3> QED BY <3>1, <3>2, <3>3
  <2> QED BY <1>2, <2>4 DEF PaintedSoFar, p
<1>5. key \in Wanted(runs, n + 1) => key \in Wanted(runs, Len(runs))
  <2>1. n + 1 \in Nat
    OBVIOUS
  <2>2. Wanted(runs, n + 1) \subseteq Wanted(runs, Len(runs))
    BY <2>1, WantedMonotone
  <2> QED BY <2>2
<1> HIDE DEF next, key, c, now, m, run
<1>6. CASE Painted(run) = NoImage
  <2>1. next.cache = c /\ next.made = m /\ next.clock \in {now, now + 1}
    BY <1>2, <1>6
  <2>2. Wanted(runs, n + 1) = Wanted(runs, n)
    BY <1>3, <1>6
  <2>3. next.clock \in Nat /\ now <= next.clock
    BY <1>1, <2>1
  <2>4. CacheOK(next.cache, next.clock)
    BY <1>1, <2>1, <2>3, LaterIsFine
  <2>5. Warm(runs, n + 1, next.cache)
    BY <1>1, <2>1, <2>2 DEF Warm
  <2>6. Still(runs, next.cache, next.made)
    BY <1>1, <2>1
  <2>7. next.made \in Nat /\ clock <= next.clock
    BY <1>1, <2>1, <2>3
  <2> QED BY <1>2, <1>4, <2>3, <2>4, <2>5, <2>6, <2>7 DEF FrameOK, next, run
<1>7. CASE Painted(run) # NoImage /\ key \in DOMAIN c
  <2>1. /\ next.clock = now + 1 /\ next.cache = Touched(c, key, now + 1) /\ next.made = m
    BY <1>2, <1>7
  <2>2. Wanted(runs, n + 1) = Wanted(runs, n) \cup {key}
    BY <1>3, <1>7
  <2>3. /\ CacheOK(next.cache, now + 1) /\ DOMAIN next.cache = DOMAIN c
        /\ next.cache[key].used = now + 1
        /\ \A k \in DOMAIN c \ {key} : next.cache[k] = c[k]
    BY <1>1, <1>7, <2>1, TouchedFacts
  <2>4. Warm(runs, n + 1, next.cache)
    <3> SUFFICES ASSUME Cardinality(Wanted(runs, Len(runs))) <= CacheLimit
                 PROVE  /\ Wanted(runs, n + 1) \subseteq DOMAIN next.cache
                        /\ \A k \in DOMAIN next.cache :
                             k \in Wanted(runs, n + 1) <=> next.cache[k].used > clock
      BY DEF Warm
    <3>1. /\ Wanted(runs, n) \subseteq DOMAIN c
          /\ \A k \in DOMAIN c : k \in Wanted(runs, n) <=> c[k].used > clock
      BY <1>1 DEF Warm
    <3>2. now + 1 > clock
      BY <1>1
    <3>3. ASSUME NEW k \in DOMAIN c
          PROVE  k \in Wanted(runs, n + 1) <=> next.cache[k].used > clock
      <4>1. CASE k = key
        BY <2>2, <2>3, <3>2, <4>1
      <4>2. CASE k # key
        BY <2>2, <2>3, <3>1, <4>2
      <4> QED BY <4>1, <4>2
    <3> QED BY <1>7, <2>2, <2>3, <3>1, <3>3
  <2>5. Still(runs, next.cache, next.made)
    BY <1>1, <2>1, <2>3 DEF Still
  <2>6. next.clock \in Nat /\ clock <= next.clock /\ next.made \in Nat
    BY <1>1, <2>1
  <2>7. CacheOK(next.cache, next.clock)
    BY <2>1, <2>3
  <2> QED BY <1>2, <1>4, <2>4, <2>5, <2>6, <2>7 DEF FrameOK, next, run
<1>8. CASE Painted(run) # NoImage /\ key \notin DOMAIN c
  <2>1. /\ next.clock = now + 1 /\ next.made = m + 1
        /\ next.cache = Remember(c, key, FromKey(key), now + 1) /\ FromKey(key) # NoImage
    BY <1>2, <1>8
  <2>2. Wanted(runs, n + 1) = Wanted(runs, n) \cup {key}
    BY <1>3, <1>8
  <2>3. CacheOK(next.cache, now + 1) /\ Warm(runs, n + 1, next.cache)
    BY <1>1, <1>8, <2>1, <2>2, StaysWarmMaking
  <2>6. Still(runs, next.cache, next.made)
    <3> SUFFICES ASSUME Wanted(runs, Len(runs)) \subseteq DOMAIN cache PROVE FALSE
      BY DEF Still
    <3>1. DOMAIN c = DOMAIN cache
      BY <1>1 DEF Still
    <3> QED BY <1>5, <1>8, <2>2, <3>1
  <2>7. next.clock \in Nat /\ clock <= next.clock /\ next.made \in Nat
    BY <1>1, <2>1
  <2>8. CacheOK(next.cache, next.clock)
    BY <2>1, <2>3
  <2> QED BY <1>2, <1>4, <2>3, <2>6, <2>7, <2>8 DEF FrameOK, next, run
<1> QED BY <1>6, <1>7, <1>8

LEMMA FrameIsOK ==
  ASSUME NEW runs, Len(runs) \in Nat, clock \in Nat, CacheOK(cache, clock)
  PROVE  FrameOK(runs, Len(runs), Frame(runs)[Len(runs)])
<1> DEFINE T == {n \in Nat : n <= Len(runs) => FrameOK(runs, n, Frame(runs)[n])}
<1>1. 0 \in T
  <2> DEFINE st == Frame(runs)[0]
  <2>1. st = [cache |-> cache, clock |-> clock, out |-> << >>, made |-> 0]
    BY FrameFacts
  <2>2. Wanted(runs, 0) = {}
    BY DEF Wanted
  <2>3. \A k \in DOMAIN cache : ~(cache[k].used > clock)
    BY DEF CacheOK
  <2>4. Warm(runs, 0, cache)
    BY <2>2, <2>3 DEF Warm
  <2>5. Still(runs, cache, 0)
    BY DEF Still
  <2>6. PaintedSoFar(runs, 0, << >>)
    BY DEF PaintedSoFar
  <2> HIDE DEF st
  <2>7. FrameOK(runs, 0, st)
    BY <2>1, <2>4, <2>5, <2>6 DEF FrameOK
  <2> QED BY <2>7 DEF st
<1>2. ASSUME NEW n \in Nat, n \in T PROVE n + 1 \in T
  <2> SUFFICES ASSUME n + 1 <= Len(runs) PROVE FrameOK(runs, n + 1, Frame(runs)[n + 1])
    OBVIOUS
  <2>1. FrameOK(runs, n, Frame(runs)[n])
    BY <1>2
  <2>2. n + 1 \in 1..Len(runs) /\ (n + 1) - 1 = n
    OBVIOUS
  <2>3. Frame(runs)[n + 1] = OneRun(Frame(runs)[n], runs[n + 1])
    BY <2>2, FrameFacts
  <2> QED BY <2>1, <2>3, FrameStep
<1>3. Nat \subseteq T
  <2> HIDE DEF T
  <2> QED BY <1>1, <1>2, SetInduction
<1> QED BY <1>3

----------------------------------------------------------------------------
(* Words: frame after frame                                                *)

\* What TextTypeOK and the picture of the last frame need to be kept: the
\* images in the cache are their keys' own, also those the last frame did not
\* show, and what the last frame showed is still there.
TextInv ==
  /\ fontless \in BOOLEAN /\ scale \in Scales
  /\ clock \in Nat /\ frames \in 0..MaxFrames
  /\ CacheOK(cache, clock)
  /\ Len(list) \in Nat /\ DOMAIN list = 1..Len(list)
  /\ \A i \in DOMAIN list : IsRun(list[i])
  /\ PaintedSoFar(list, Len(list), out)
  /\ Cardinality(Wanted(list, Len(list))) <= CacheLimit =>
       Wanted(list, Len(list)) \subseteq DOMAIN cache
  /\ list # << >> /\ before = list /\ Cardinality(Wanted(list, Len(list))) <= CacheLimit =>
       made = 0

LEMMA EmptyCacheIsOK ==
  ASSUME NEW now \in Nat
  PROVE  /\ CacheOK(<< >>, now) /\ Len(<< >>) = 0 /\ DOMAIN << >> = 1..0
         /\ PaintedSoFar(<< >>, 0, << >>) /\ Wanted(<< >>, 0) = {}
<1>1. DOMAIN << >> = {} /\ 1..0 = {}
  OBVIOUS
<1>2. Cardinality({}) <= CacheLimit /\ IsFiniteSet({})
  BY FS_EmptySet, LimitAssumption
<1>3. CacheOK(<< >>, now)
  BY <1>1, <1>2 DEF CacheOK
<1> QED BY <1>1, <1>3 DEF PaintedSoFar, Wanted

LEMMA TextInitOK == ASSUME TextInit PROVE TextInv
<1>1. /\ fontless \in BOOLEAN /\ scale \in Scales
      /\ cache = << >> /\ clock = 0 /\ frames = 0
      /\ list = << >> /\ out = << >> /\ made = 0
  BY DEF TextInit
<1>2. /\ CacheOK(<< >>, 0) /\ Len(<< >>) = 0 /\ DOMAIN << >> = 1..0
      /\ PaintedSoFar(<< >>, 0, << >>) /\ Wanted(<< >>, 0) = {}
  BY EmptyCacheIsOK
<1>3. frames \in 0..MaxFrames
  BY <1>1, FramesAssumption
<1> QED BY <1>1, <1>2, <1>3 DEF TextInv

LEMMA SamePainting ==
  ASSUME UNCHANGED <<fontless, scale>>
  PROVE  /\ \A run : Painted(run)' = Painted(run) /\ KeyOf(run)' = KeyOf(run)
         /\ \A runs, n : Wanted(runs, n)' = Wanted(runs, n)
         /\ \A runs, n, o : PaintedSoFar(runs, n, o)' = PaintedSoFar(runs, n, o)
<1>1. ASSUME NEW run PROVE KeyOf(run)' = KeyOf(run)
  BY DEF KeyOf, SizePx, MaxW
<1>2. ASSUME NEW run PROVE IsDrawable(run)' = IsDrawable(run)
  BY DEF IsDrawable, MaxW
<1>3. ASSUME NEW run, NEW image PROVE Place(run, image)' = Place(run, image)
  BY DEF Place, MaxW
<1>4. ASSUME NEW run PROVE Painted(run)' = Painted(run)
  BY <1>1, <1>2, <1>3 DEF Painted
<1>5. ASSUME NEW runs, NEW n PROVE Wanted(runs, n)' = Wanted(runs, n)
  BY <1>1, <1>4 DEF Wanted
<1>6. ASSUME NEW runs, NEW n, NEW o PROVE PaintedSoFar(runs, n, o)' = PaintedSoFar(runs, n, o)
  BY <1>4 DEF PaintedSoFar
<1> QED BY <1>1, <1>4, <1>5, <1>6

LEMMA ResolveKeeps ==
  ASSUME TextInv, NEW runs \in Lists(frames), Resolve(runs)
  PROVE  TextInv'
<1> DEFINE n == Len(runs)
<1> DEFINE st == Frame(runs)[n]
<1>1. /\ Len(runs) \in Nat /\ DOMAIN runs = 1..Len(runs)
      /\ \A i \in DOMAIN runs : IsRun(runs[i])
  BY ListsAssumption DEF TextInv
<1>2. FrameOK(runs, n, st)
  BY <1>1, FrameIsOK DEF TextInv
<1>3. /\ frames < MaxFrames /\ frames' = frames + 1
      /\ cache' = st.cache /\ clock' = st.clock /\ out' = st.out /\ made' = st.made
      /\ before' = list /\ list' = runs
      /\ UNCHANGED <<fontless, scale>>
  BY DEF Resolve
<1> HIDE DEF st
<1>4. /\ st.clock \in Nat /\ CacheOK(st.cache, st.clock) /\ PaintedSoFar(runs, n, st.out)
      /\ Warm(runs, n, st.cache) /\ Still(runs, st.cache, st.made)
  BY <1>2 DEF FrameOK
<1>5. Wanted(list, Len(list))' = Wanted(runs, n)
  <2>1. Wanted(list, Len(list))' = Wanted(runs, n)'
    BY <1>3 DEF Wanted
  <2> QED BY <1>3, <2>1, SamePainting
<1>6. PaintedSoFar(list, Len(list), out)'
  <2>1. PaintedSoFar(list, Len(list), out)' <=> out' = [i \in 1..n |-> Painted(runs[i])']
    BY <1>3 DEF PaintedSoFar
  <2>2. \A i : Painted(runs[i])' = Painted(runs[i])
    BY <1>3, SamePainting
  <2> QED BY <1>3, <1>4, <2>1, <2>2 DEF PaintedSoFar
<1>7. Cardinality(Wanted(runs, n)) <= CacheLimit => Wanted(runs, n) \subseteq DOMAIN cache'
  BY <1>3, <1>4 DEF Warm
<1>8. list = runs /\ Cardinality(Wanted(runs, n)) <= CacheLimit => made' = 0
  <2> SUFFICES ASSUME list = runs, Cardinality(Wanted(runs, n)) <= CacheLimit PROVE made' = 0
    OBVIOUS
  <2>1. Wanted(runs, n) \subseteq DOMAIN cache
    BY DEF TextInv
  <2> QED BY <1>3, <1>4, <2>1 DEF Still
<1>9. /\ (fontless \in BOOLEAN /\ scale \in Scales)'
      /\ (frames \in 0..MaxFrames)'
  BY <1>3, FramesAssumption DEF TextInv
<1>10. CacheOK(cache, clock)'
  BY <1>3, <1>4 DEF CacheOK
<1> QED BY <1>1, <1>3, <1>4, <1>5, <1>6, <1>7, <1>8, <1>9, <1>10 DEF TextInv

LEMMA ClearCacheKeeps == ASSUME TextInv, ClearCache PROVE TextInv'
<1>1. /\ cache' = << >> /\ list' = << >> /\ out' = << >>
      /\ UNCHANGED <<fontless, scale, clock, frames>>
  BY DEF ClearCache
<1>2. /\ CacheOK(<< >>, clock) /\ Len(<< >>) = 0 /\ DOMAIN << >> = 1..0
      /\ PaintedSoFar(<< >>, 0, << >>) /\ Wanted(<< >>, 0) = {}
  BY EmptyCacheIsOK DEF TextInv
<1>3. CacheOK(cache, clock)'
  BY <1>1, <1>2 DEF CacheOK
<1>4. Wanted(list, Len(list))' = {}
  BY <1>1, <1>2 DEF Wanted
<1>5. PaintedSoFar(list, Len(list), out)'
  BY <1>1, <1>2 DEF PaintedSoFar
<1> QED BY <1>1, <1>2, <1>3, <1>4, <1>5 DEF TextInv

LEMMA TextStutters == ASSUME TextInv, UNCHANGED textVars PROVE TextInv'
<1>1. UNCHANGED <<fontless, scale, cache, clock, frames, before, list, out, made>>
  BY DEF textVars
<1>2. Wanted(list, Len(list))' = Wanted(list, Len(list))
  <2>1. ASSUME NEW runs, list = runs PROVE Wanted(list, Len(list))' = Wanted(runs, Len(runs))
    <3>1. Wanted(list, Len(list))' = Wanted(runs, Len(runs))'
      BY <1>1, <2>1 DEF Wanted
    <3> QED BY <1>1, <3>1, SamePainting
  <2> QED BY <2>1
<1>3. PaintedSoFar(list, Len(list), out)' <=> PaintedSoFar(list, Len(list), out)
  <2>1. PaintedSoFar(list, Len(list), out)' <=> out = [i \in 1..Len(list) |-> Painted(list[i])']
    BY <1>1 DEF PaintedSoFar
  <2>2. \A i : Painted(list[i])' = Painted(list[i])
    BY <1>1 DEF KeyOf, SizePx, MaxW, IsDrawable, Place, Painted
  <2> QED BY <2>1, <2>2 DEF PaintedSoFar
<1>4. CacheOK(cache, clock)' <=> CacheOK(cache, clock)
  BY <1>1 DEF CacheOK
<1> QED BY <1>1, <1>2, <1>3, <1>4 DEF TextInv

LEMMA TextInvHolds == TextSpec => []TextInv
<1>1. TextInit => TextInv
  BY TextInitOK
<1>2. TextInv /\ [TextNext]_textVars => TextInv'
  <2> SUFFICES ASSUME TextInv, [TextNext]_textVars PROVE TextInv'
    OBVIOUS
  <2>1. CASE ClearCache
    BY <2>1, ClearCacheKeeps
  <2>2. CASE \E runs \in Lists(frames) : Resolve(runs)
    BY <2>2, ResolveKeeps
  <2>3. CASE UNCHANGED textVars
    BY <2>3, TextStutters
  <2> QED BY <2>1, <2>2, <2>3 DEF TextNext
<1> QED BY <1>1, <1>2, PTL DEF TextSpec

LEMMA TextInvSays == ASSUME TextInv PROVE CacheIsRight
<1> DEFINE n == Len(list)
<1>1. n \in Nat /\ DOMAIN list = 1..n /\ out = [i \in 1..n |-> Painted(list[i])]
  BY DEF TextInv, PaintedSoFar
<1>2. Len(out) = n
  BY <1>1
<1>3. Shown = {i \in 1..n : Painted(list[i]) # NoImage}
  BY <1>1 DEF Shown
<1>4. TextTypeOK
  BY <1>2 DEF TextTypeOK, TextInv, CacheOK
<1>5. CachedPictureIsRight
  <2> SUFFICES ASSUME NEW i \in DOMAIN list
               PROVE  /\ i \in Shown => out[i].image = Rasterised(list[i])
                      /\ i \notin Shown => ~IsDrawable(list[i]) \/ Rasterised(list[i]) = NoImage
    BY DEF CachedPictureIsRight
  <2>1. out[i] = Painted(list[i]) /\ Rasterised(list[i]) = FromKey(KeyOf(list[i]))
    BY <1>1, SameImage
  <2>2. i \in Shown <=> Painted(list[i]) # NoImage
    BY <1>1, <1>3
  <2> QED BY <2>1, <2>2, PlacedIsAnImage DEF Painted
<1>6. StillPictureCostsNothing
  <2>1. {KeyOf(list[i]) : i \in Shown} = Wanted(list, n)
    BY <1>3 DEF Wanted
  <2> QED BY <2>1 DEF StillPictureCostsNothing, TextInv
<1> QED BY <1>4, <1>5, <1>6 DEF CacheIsRight

\* CacheIsRight of every reachable state, for any fonts, cache limit and
\* frames: what rasterise takes from the cache is what it would draw afresh,
\* remember never lets the cache outgrow its limit, and what it drops for a
\* new string is never a string this frame shows, as long as one frame fits;
\* so a picture that stays rasterises nothing.
THEOREM CacheStaysRight == TextSpec => []CacheIsRight
<1>1. TextInv => CacheIsRight
  BY TextInvSays
<1> QED BY <1>1, TextInvHolds, PTL

LEMMA ShownFacts ==
  ASSUME TextInv, NEW i \in Shown
  PROVE  LET run == list[i]
             drawn == Fit(run.text, SizePx(run), MaxW(run))
         IN  /\ IsRun(run) /\ run.text \in Seq(Letters)
             /\ SizePx(run) \in Nat /\ MaxW(run) \in Nat
             /\ drawn # << >>
             /\ out[i] = Place(run, out[i].image)
             /\ out[i].image.text = drawn
             /\ out[i].image.width = Measure(drawn, SizePx(run))
<1> DEFINE run == list[i]
<1> DEFINE drawn == Fit(run.text, SizePx(run), MaxW(run))
<1>1. i \in DOMAIN list /\ out[i] # NoImage /\ out[i] = Painted(run)
  BY DEF Shown, TextInv, PaintedSoFar
<1>2. IsRun(run) /\ scale \in Nat
  BY <1>1, ScalesAssumption DEF TextInv
<1>3. IsDrawable(run) /\ FromKey(KeyOf(run)) # NoImage /\ out[i] = Place(run, FromKey(KeyOf(run)))
  BY <1>1 DEF Painted
<1>4. run.text \in Seq(Letters) /\ SizePx(run) \in Nat /\ MaxW(run) \in Nat
  <2>1. run.text \in Seq(Letters) /\ run.size \in Int /\ run.area.w \in Int
    BY <1>2 DEF IsRun, Letters
  <2>2. run.size > 0 /\ MaxW(run) > 0
    BY <1>3 DEF IsDrawable
  <2>3. run.size \in Nat
    BY <2>1, <2>2
  <2>4. run.size * scale \in Nat /\ run.area.w * scale \in Int
    BY <1>2, <2>1, <2>3
  <2> QED BY <2>1, <2>2, <2>4 DEF SizePx, MaxW
<1>5. KeyOf(run).text = run.text /\ KeyOf(run).size_px = SizePx(run) /\ KeyOf(run).max_w = MaxW(run)
  BY DEF KeyOf
<1>6. /\ drawn # << >>
      /\ FromKey(KeyOf(run)) = [text |-> drawn, width |-> Measure(drawn, SizePx(run)),
                                height |-> Height(drawn, SizePx(run)), colour |-> KeyOf(run).colour]
  <2>1. FromKey(KeyOf(run)) =
          IF drawn = << >> \/ Measure(drawn, SizePx(run)) = 0 THEN NoImage
          ELSE [text |-> drawn, width |-> Measure(drawn, SizePx(run)),
                height |-> Height(drawn, SizePx(run)), colour |-> KeyOf(run).colour]
    BY <1>5 DEF FromKey
  <2> HIDE DEF drawn
  <2> QED BY <1>3, <2>1
<1>7. out[i].image = FromKey(KeyOf(run))
  BY <1>3, PlacedIsAnImage
<1> HIDE DEF drawn, run
<1>8. out[i].image.text = drawn /\ out[i].image.width = Measure(drawn, SizePx(run))
  BY <1>6, <1>7
<1> QED BY <1>2, <1>3, <1>4, <1>6, <1>7, <1>8 DEF drawn, run

LEMMA CutLate == ASSUME TextInv PROVE NamesAreCutLate
<1> SUFFICES ASSUME NEW i \in Shown, Cardinality(Starts(list[i].text)) = 1
             PROVE  IsLongest(list[i], out[i].image.text)
  BY DEF NamesAreCutLate
<1> DEFINE run == list[i]
<1> DEFINE drawn == Fit(run.text, SizePx(run), MaxW(run))
<1>1. /\ run.text \in Seq(Letters) /\ SizePx(run) \in Nat /\ MaxW(run) \in Nat
      /\ drawn # << >> /\ out[i].image.text = drawn
  BY ShownFacts
<1>2. OneLine(run.text)
  BY <1>1, OneLineFacts
<1>3. /\ Measure(run.text, SizePx(run)) <= MaxW(run) => drawn = run.text
      /\ ~(Measure(run.text, SizePx(run)) <= MaxW(run)) =>
           \E n \in 0..Len(run.text) :
             /\ drawn = Cut(run.text, n) /\ Measure(Cut(run.text, n), SizePx(run)) <= MaxW(run)
             /\ \A m \in 0..Len(run.text) :
                  Measure(Cut(run.text, m), SizePx(run)) <= MaxW(run) => m <= n
  BY <1>1, <1>2, FitFacts
<1> HIDE DEF drawn, run
<1>4. IsLongest(run, drawn)
  BY <1>3 DEF IsLongest
<1> QED BY <1>1, <1>4 DEF run

LEMMA InItsWidth == ASSUME TextInv PROVE TextStaysInItsWidth
<1> SUFFICES ASSUME NEW i \in Shown
             PROVE  /\ out[i].x >= list[i].area.x * scale
                    /\ out[i].x + out[i].image.width <= Right(list[i].area) * scale
  BY DEF TextStaysInItsWidth
<1> DEFINE run == list[i]
<1> DEFINE drawn == Fit(run.text, SizePx(run), MaxW(run))
<1> DEFINE w == out[i].image.width
<1>1. /\ IsRun(run) /\ run.text \in Seq(Letters) /\ SizePx(run) \in Nat /\ MaxW(run) \in Nat
      /\ drawn # << >> /\ w = Measure(drawn, SizePx(run))
      /\ out[i] = Place(run, out[i].image)
  BY ShownFacts
<1>2. w \in Nat /\ w <= MaxW(run)
  <2>1. drawn \in Seq(Letters) /\ Measure(drawn, SizePx(run)) <= MaxW(run)
    BY <1>1, FitFacts
  <2> QED BY <1>1, <2>1, MeasureIsNat
<1>3. scale \in Nat /\ run.area.x \in Int /\ run.area.w \in Int /\ run.align \in {"start", "centre", "end"}
  BY <1>1, ScalesAssumption DEF TextInv, IsRun
<1> DEFINE free == MaxW(run) - w
<1> DEFINE off == CASE run.align = "start" -> 0 [] run.align = "centre" -> Quot(free, 2)
                    [] run.align = "end" -> free
<1>4. out[i].x = run.area.x * scale + off
  <2>1. \A r, image :
          Place(r, image).x = r.area.x * scale +
            (CASE r.align = "start" -> 0 [] r.align = "centre" -> Quot(MaxW(r) - image.width, 2)
               [] r.align = "end" -> MaxW(r) - image.width)
    BY DEF Place
  <2> DEFINE image == out[i].image
  <2>2. out[i] = Place(run, image)
    BY <1>1
  <2>3. out[i].x = Place(run, image).x
    BY <2>2
  <2> QED BY <2>1, <2>3
<1>5. off \in 0..free
  <2>1. free \in Nat
    BY <1>1, <1>2
  <2> HIDE DEF free
  <2>2. Quot(free, 2) \in 0..free
    BY <2>1 DEF Quot
  <2> QED BY <1>3, <2>1, <2>2
<1> HIDE DEF off
<1>6. Right(run.area) * scale = run.area.x * scale + MaxW(run)
  <2>1. (run.area.x + run.area.w) * scale = run.area.x * scale + run.area.w * scale
    BY <1>3
  <2> QED BY <2>1 DEF Right, MaxW
<1>7. run.area.x * scale \in Int
  BY <1>3
<1> HIDE DEF w, run
<1> QED BY <1>1, <1>2, <1>4, <1>5, <1>6, <1>7 DEF run, w

\* NamesFitTheirBoxes of every reachable state, for any fonts, texts and
\* boxes: the binary search of fit never stops short of the longest beginning
\* of a name that leaves room for the ellipsis, and place lets no text, of
\* one line or of several, out of its box sideways.
THEOREM NamesAlwaysFit == TextSpec => []NamesFitTheirBoxes
<1>1. TextInv => NamesFitTheirBoxes
  BY CutLate, InItsWidth DEF NamesFitTheirBoxes
<1> QED BY <1>1, TextInvHolds, PTL
=============================================================================
