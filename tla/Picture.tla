------------------------------- MODULE Picture -------------------------------
(***************************************************************************)
(* What is on the screen and what a point on it means: the rectangles of   *)
(* WindowModel::layout (gostui-core/src/window.rs), the display list of    *)
(* gostui-render/src/paint.rs, hit_test of gostui-core/src/input.rs.       *)
(*                                                                         *)
(* A screen s is a record of what all three read: its area, the theme and  *)
(* the zones these make, the card strip with the number of items of each   *)
(* card, the window model and, in look, the sizes and flags of each window *)
(* that WindowOps leaves out.                                              *)
(* An element of the picture is what a press on it should hit, and its     *)
(* rectangle.                                                              *)
(***************************************************************************)
EXTENDS Theme, WindowOps, TabOps

CONSTANT Screen  \* the output that is shown

\* State::zones.
ZonesOf(area, theme) == Zones(area, BarHeights(theme.metrics))

----------------------------------------------------------------------------
(* WindowModel::layout                                                     *)

\* A window that refuses its tile is centred at its own size, a fullscreen
\* one has the whole screen.
TiledRect(s, w, tile) ==
  LET l == s.look[w]
  IN  IF IsTiled(s.windows.windows[w].role, l.min_size, tile, l.fullscreen) THEN tile
      ELSE IF l.fullscreen THEN s.area
      ELSE Centred(Size(Most(l.size.w, l.min_size.w), Most(l.size.h, l.min_size.h)),
                   s.zones.apps)

LayoutTiled(s) ==
  LET tiled == Tiled(s.windows, Screen)
      rects == Tile(s.zones.apps, Len(tiled), s.split, GapsOf(s.theme.metrics))
  IN  [i \in 1..Least(Len(tiled), Len(rects)) |->
         [window |-> tiled[i], rect |-> TiledRect(s, tiled[i], rects[i])]]

\* A menu with a place of its own hangs off its parent's corner, everything
\* else floats over the middle of it, or of the zone.
ChildRect(s, w, below) ==
  LET parent == s.windows.windows[w].parent
      anchor == CHOOSE p \in Elements(below) : p.window = parent
      place  == s.look[w].position
  IN  IF parent = NoWindow THEN Centred(s.look[w].size, s.zones.apps)
      ELSE IF place = << >> THEN Centred(s.look[w].size, anchor.rect)
      ELSE Rect(anchor.rect.x + place[1], anchor.rect.y + place[2], place[3], place[4])

\* Back to front: the tiles, then the children of what is on them, oldest
\* first.
LayoutOver(s, below) ==
  LET shown    == {p.window : p \in Elements(below)}
      children == {w \in Live(s.windows) :
                     /\ ~IsToplevel(s.windows, w) /\ s.windows.windows[w].output = Screen
                     /\ s.windows.windows[w].parent \in shown \cup {NoWindow}}
      inOrder  == Retain([i \in 1..s.windows.next_id |-> i - 1], children)
  IN  below \o [i \in DOMAIN inOrder |->
                  [window |-> inOrder[i], rect |-> ChildRect(s, inOrder[i], below)]]

Layout(s) == LayoutOver(s, LayoutTiled(s))

----------------------------------------------------------------------------
(* hit_test                                                                *)

Part(name)       == [part |-> name]
OnWindow(w)      == [part |-> "window", window |-> w]
OnChip(i)        == [part |-> "chip", chip |-> i]
OnCard(i)        == [part |-> "card", card |-> i]
OnCardTile(i, t) == [part |-> "tile", card |-> i, tile |-> t]

Columns(s) == CardColumns(s.zones.apps, s.theme.metrics, Len(s.strip.tabs), s.strip.active)

\* The tiles of the card at index i, whose rectangle is card.
TilesOf(s, i, card) == LayoutTiles(card, s.theme.metrics, s.items[s.strip.tabs[i + 1]])

Chips(s) == BottomBarLayout(s.zones.bottom_bar, Len(Bar(s.windows, Screen)))

\* What a hit test is given and what it works out from that: State::hit.
View(s) ==
  LET columns == Columns(s)
  IN  [zones   |-> s.zones,
       top     |-> TopBarLayout(s.zones.top_bar),
       chips   |-> Chips(s),
       placed  |-> Layout(s),
       columns |-> columns,
       tiles   |-> [i \in DOMAIN columns.cards |-> TilesOf(s, i, columns.cards[i])]]

HitTopBar(v, p) ==
  LET hits == {item \in DOMAIN v.top : \E r \in v.top[item] : ContainsPoint(r, p)}
  IN  Part(IF hits = {} THEN "top_bar" ELSE CHOOSE item \in hits : TRUE)

HitBottomBar(v, p) ==
  LET hits == {i \in DOMAIN v.chips : ContainsPoint(v.chips[i], p)}
  IN  IF hits = {} THEN Part("bottom_bar") ELSE OnChip(CHOOSE i \in hits : TRUE)

HitCards(v, p) ==
  LET cards == {i \in DOMAIN v.columns.cards : ContainsPoint(v.columns.cards[i], p)}
      card  == CHOOSE i \in cards : TRUE
      hits  == {t \in DOMAIN v.tiles[card] : ContainsPoint(v.tiles[card][t], p)}
  IN  IF \E r \in v.columns.add : ContainsPoint(r, p) THEN Part("new_card")
      ELSE IF cards = {} THEN Part("desktop")
      ELSE IF hits = {} THEN OnCard(card)
      ELSE OnCardTile(card, CHOOSE t \in hits : TRUE)

\* Variant: the windows are searched from the back.
HitTest_FromTheBack(v, p) ==
  LET hits == {i \in DOMAIN v.placed : ContainsPoint(v.placed[i].rect, p)}
  IN  IF ContainsPoint(v.zones.top_bar, p) THEN HitTopBar(v, p)
      ELSE IF ContainsPoint(v.zones.bottom_bar, p) THEN HitBottomBar(v, p)
      ELSE IF hits # {} THEN OnWindow(v.placed[Min(hits)].window)
      ELSE HitCards(v, p)

\* The bars first, then the windows from the front, then the cards.
HitTest(v, p) ==
  LET hits == {i \in DOMAIN v.placed : ContainsPoint(v.placed[i].rect, p)}
  IN  IF ContainsPoint(v.zones.top_bar, p) THEN HitTopBar(v, p)
      ELSE IF ContainsPoint(v.zones.bottom_bar, p) THEN HitBottomBar(v, p)
      ELSE IF hits # {} THEN OnWindow(v.placed[Max(hits)].window)
      ELSE HitCards(v, p)

\* Hit::card: a tile is on its card.
CardOf(hit) == IF hit.part \in {"card", "tile"} THEN {hit.card} ELSE {}

----------------------------------------------------------------------------
(* The display list.  paint.rs calls the functions hit_test calls, with the *)
(* same arguments: what they return is v, the view.                        *)

FocusMarkH == 3

\* push: rectangles without an inside are left out.
Push(hit, r) == IF r.w > 0 /\ r.h > 0 THEN <<[hit |-> hit, rect |-> r]>> ELSE << >>

PushAll(hit, rs) ==
  LET seq == SetToSeq(rs) IN FlattenSeq([i \in DOMAIN seq |-> Push(hit, seq[i])])

\* Four fills inside the rectangle, its edges.
PushOutline(hit, r, width) ==
  LET t == Most(width, 1)
  IN  Push(hit, Rect(r.x, r.y, r.w, t)) \o Push(hit, Rect(r.x, Bottom(r) - t, r.w, t))
        \o Push(hit, Rect(r.x, r.y, t, r.h)) \o Push(hit, Rect(Right(r) - t, r.y, t, r.h))

\* A card: its face, its header with the name, its tiles with their names,
\* and the ring around the active one, last.
PaintCard(s, i, card, tiles) ==
  LET m     == s.theme.metrics
      line  == LineHeight(s.theme.fonts.size_tile)
  IN  Push(OnCard(i), card)
        \o Push(OnCard(i), CardHeader(card, m))
        \o PushAll(OnCard(i), CardTitle(card, m, LineHeight(s.theme.fonts.size_card)))
        \o FlattenSeq([t \in DOMAIN tiles |->
                         Push(OnCardTile(i, t), tiles[t])
                           \o PushAll(OnCardTile(i, t), TileFace(tiles[t], line).caption)])
        \o (IF i = s.strip.active THEN PushOutline(OnCard(i), card, m.focus_width) ELSE << >>)

PaintCards(s, v) ==
  LET m   == s.theme.metrics
      add == v.columns.add
      cards == v.columns.cards
  IN  FlattenSeq([i \in 1..Len(s.strip.tabs) |->
                    IF i - 1 \in DOMAIN cards
                    THEN PaintCard(s, i - 1, cards[i - 1], v.tiles[i - 1]) ELSE << >>])
        \o PushAll(Part("new_card"), add)
        \o PushAll(Part("new_card"), {CardHeader(r, m) : r \in add})
        \o PushAll(Part("new_card"), UNION {PlusMark(r, m) : r \in add})

PaintTopBar(v) ==
  LET bar == v.zones.top_bar
      l   == v.top
  IN  Push(Part("top_bar"), bar)
        \o Push(Part("top_bar"), Rect(bar.x, Bottom(bar) - 1, bar.w, 1))
        \o PushAll(Part("menu"), l.menu)
        \o PushAll(Part("menu"), UNION {MenuIcon(r) : r \in l.menu})
        \o PushAll(Part("search"), l.search) \o PushAll(Part("clock"), l.clock)
        \o PushAll(Part("status"), l.status)

\* The bar along the lower edge of the focused window's chip.
FocusMark(chip) == Rect(chip.x, Bottom(chip) - FocusMarkH, chip.w, FocusMarkH)

PaintBottomBar(s, v) ==
  LET bar   == v.zones.bottom_bar
      chips == v.chips
  IN  Push(Part("bottom_bar"), bar) \o Push(Part("bottom_bar"), Rect(bar.x, bar.y, bar.w, 1))
        \o FlattenSeq([i \in DOMAIN chips |->
              Push(OnChip(i), chips[i])
                \o (IF Bar(s.windows, Screen)[i] = s.windows.focus
                    THEN Push(OnChip(i), FocusMark(chips[i])) ELSE << >>)])

\* A window's picture, and the ring inside it when it has focus; a
\* fullscreen window has none.
PaintWindow(s, p) ==
  <<[hit |-> OnWindow(p.window), rect |-> p.rect]>>
    \o (IF p.window = s.windows.focus /\ ~s.look[p.window].fullscreen
        THEN PushOutline(OnWindow(p.window), p.rect, s.theme.metrics.focus_width) ELSE << >>)

PaintWindows(s, v, fullscreen) ==
  FlattenSeq([i \in DOMAIN v.placed |->
                IF s.look[v.placed[i].window].fullscreen = fullscreen
                THEN PaintWindow(s, v.placed[i]) ELSE << >>])

\* Variant: the bars are painted first, and the windows over them.
DisplayList_BarsBelow(s, v) ==
  Push(Part("desktop"), s.area) \o PaintCards(s, v) \o PaintTopBar(v) \o PaintBottomBar(s, v)
    \o PaintWindows(s, v, FALSE) \o PaintWindows(s, v, TRUE)

\* Back to front: the desktop, the cards, the windows, the two bars, and over
\* them only what is fullscreen.
DisplayList(s, v) ==
  Push(Part("desktop"), s.area) \o PaintCards(s, v) \o PaintWindows(s, v, FALSE)
    \o PaintTopBar(v) \o PaintBottomBar(s, v) \o PaintWindows(s, v, TRUE)

\* What is seen at a point: what was painted there last.
Seen(list, p) == list[Max({i \in DOMAIN list : ContainsPoint(list[i].rect, p)})].hit
=============================================================================
