-------------------------------- MODULE Screen --------------------------------
(***************************************************************************)
(* One screen of the compositor with everything that decides what is where *)
(* on it: its size, the theme, the cards, the windows with their sizes.    *)
(* The user resizes it, presses on it and uses the keys; clients open      *)
(* windows and menus, commit sizes and close.                              *)
(*                                                                         *)
(* Compositor has the same handlers with their calls, frames and keyboard; *)
(* here they are taken for what they do to the picture.  A handler that    *)
(* changes the windows synchronises the layout before it is over, or the   *)
(* tile limit is unchanged and there is nothing to synchronise.            *)
(***************************************************************************)
EXTENDS Picture

CONSTANTS Areas,      \* the sizes the nested window may have
          RawThemes,  \* the themes that may be in the file
          MinSizes,   \* the minimum sizes clients ask for
          Positioners,\* where clients ask for their menus
          MaxCards, MaxWindows \* bounds of the model: handles given out

ASSUME ScreenAssumption == Screen \in Outputs
ASSUME CardsAssumption == MaxCards \in Nat /\ MaxCards >= 4
ASSUME WindowsAssumption == MaxWindows \in Nat

\* A screen may be of no size at all, a theme may ask for anything; a minimum
\* size is one the client gave or one unit, and never less (min_size).
ASSUME AreasAssumption ==
  \A a \in Areas : a = Rect(a.x, a.y, a.w, a.h) /\ a.x \in Int /\ a.y \in Int
                                               /\ a.w \in Nat /\ a.h \in Nat
ASSUME ThemesAssumption ==
  \A t \in RawThemes : /\ t.metrics \in [DOMAIN BuiltinMetrics -> Int]
                       /\ t.fonts \in [DOMAIN BuiltinFonts -> Int]
ASSUME SizesAssumption ==
  \A s \in MinSizes : s.w \in Nat /\ s.h \in Nat /\ IsValid(s)
ASSUME PositionersAssumption ==
  Positioners \subseteq [x : Int, y : Int, w : Int, h : Int, slide : BOOLEAN]

VARIABLES
  area,    \* window_size, as the rectangle of the screen
  theme,   \* State.theme, loaded once
  strip,   \* State.tabs
  windows, \* State.windows
  look     \* of each window: its sizes, its flag, its place over the parent,
           \* and, known to the client only, the size it last committed

vars == <<area, theme, strip, windows, look>>

\* placeholder_tabs: four cards with shortcuts; a new card has none.
PlaceholderItems == <<6, 4, 7, 3>>

PlaceholderTabs == Add(Add(Add(Add(EmptyStrip))))

Screenful ==
  [area |-> area, theme |-> theme, zones |-> ZonesOf(area, theme), split |-> EvenSplit, strip |-> strip,
   items |-> [id \in 0..(strip.next_id - 1) |-> IF id < 4 THEN PlaceholderItems[id + 1] ELSE 0],
   windows |-> windows, look |-> look]

NewLook(size) == [min_size |-> Size(1, 1), size |-> size, fullscreen |-> FALSE,
                  position |-> << >>]

\* Variant: a smaller screen leaves the tile limit as it was.
Synced_NeverShrinks(m, a) ==
  SetCapacity(m, Screen, Most(SlotMut(m, Screen).capacity,
                              TileLimit(Zones(a, BarHeights(theme.metrics)).apps,
                                        GapsOf(theme.metrics))))

\* sync_layout: as many tiles as the zone between the bars has room for.
Synced(m, a) ==
  SetCapacity(m, Screen, TileLimit(Zones(a, BarHeights(theme.metrics)).apps,
                                   GapsOf(theme.metrics)))

----------------------------------------------------------------------------
(* The user                                                                *)

Resize ==
  \E a \in Areas :
    /\ area' = a /\ windows' = Synced(windows, a)
    /\ UNCHANGED <<theme, strip, look>>

FocusChanged(m) == windows' = Synced(m, area) /\ UNCHANGED <<area, theme, strip, look>>

ChangeStrip(s) == strip' = s /\ UNCHANGED <<area, theme, windows, look>>

\* Variant: the new card is not the active one.
NewCard_StaysBehind == strip.next_id < MaxCards /\ ChangeStrip(Add(strip))

\* new_card: made at the end of the strip, and active.
NewCard == strip.next_id < MaxCards /\ ChangeStrip(SetActive(Add(strip), strip.next_id))

SlideStrip == \E forward \in BOOLEAN :
                CanSlide(strip, forward) /\ ChangeStrip(Slide(strip, forward))

Cycle == \E forward \in BOOLEAN :
           Bar(windows, Screen) # << >> /\ FocusChanged(CycleFocus(windows, Screen, forward))

ToggleFullscreen ==
  /\ windows.focus # NoWindow
  /\ look' = [look EXCEPT ![windows.focus].fullscreen = ~@]
  /\ windows' = Synced(windows, area)
  /\ UNCHANGED <<area, theme, strip>>

\* press, on what is under the point.
PressOn(hit) ==
  \/ /\ hit.part = "window" /\ windows.focus # hit.window
     /\ FocusChanged(Focus(windows, hit.window))
  \/ /\ hit.part = "chip"
     /\ FocusChanged(Activate(windows, Bar(windows, Screen)[hit.chip]))
  \/ /\ CardOf(hit) # {}
     /\ \E i \in CardOf(hit) : ChangeStrip(SetActive(strip, strip.tabs[i + 1]))
  \/ hit.part = "new_card" /\ NewCard

\* The corners of everything painted, and the points just off them.
Probes(list) ==
  {p \in UNION {{Point(e.rect.x, e.rect.y), Point(Right(e.rect), Bottom(e.rect)),
                 Point(Right(e.rect) - 1, Bottom(e.rect) - 1)}
                : e \in Elements(list)} : ContainsPoint(area, p)}

\* What the screen shows: the one view of it, and the one list.
Sights == UNION {{[view |-> v, list |-> DisplayList(s, v)] : v \in {View(s)}} : s \in {Screenful}}

\* Where a press is told apart from any other: one point for each part.
Press ==
  \E sight \in Sights :
    \E hit \in {HitTest(sight.view, p) : p \in Probes(sight.list)} : PressOn(hit)

----------------------------------------------------------------------------
(* The clients                                                             *)

\* new_toplevel: 640 by 480 until it says otherwise.
NewToplevel ==
  /\ windows.next_id < MaxWindows
  /\ windows' = OpenToplevel(windows, Screen)
  /\ look' = [w \in DOMAIN look \cup {windows.next_id} |->
                IF w = windows.next_id THEN NewLook(Size(640, 480)) ELSE look[w]]
  /\ UNCHANGED <<area, theme, strip>>

\* refresh_metadata reads the minimum, and of no dialog the size.
WithMetadata(l, min) == [l EXCEPT !.min_size = min]

\* commit of a toplevel, dialogs among them, with a parent if it named one.
Commit ==
  \E w \in Live(windows), p \in Live(windows) \cup {NoWindow}, min \in MinSizes :
    /\ windows.windows[w].role # "popup"
    /\ look' = [look EXCEPT ![w] = WithMetadata(@, min)]
    /\ windows' = Synced(AdoptAsDialog(windows, w, p), area)
    /\ UNCHANGED <<area, theme, strip>>

RequestFullscreen ==
  \E w \in Live(windows), flag \in BOOLEAN :
    /\ windows.windows[w].role # "popup"
    /\ look' = [look EXCEPT ![w].fullscreen = flag]
    /\ windows' = Synced(windows, area)
    /\ UNCHANGED <<area, theme, strip>>

\* smithay's answer for a menu that may slide and not flip or shrink: moved
\* into the area it was given, or to its near edge.
Unconstrained(g, where) ==
  LET slid(x, w, low, extent) == Most(Least(x, low + extent - w), low)
  IN  IF ~g.slide THEN g
      ELSE [g EXCEPT !.x = slid(g.x, g.w, where.x, where.w),
                     !.y = slid(g.y, g.h, where.y, where.h)]

\* The area offered to a menu: the size of its parent from the corner of the
\* screen, seen from the parent's corner.
MenuArea(anchor) == Rect(-anchor.x, -anchor.y, Most(anchor.w, 1), Most(anchor.h, 1))

\* position_popup, against the parent where it is now if it is on screen: the
\* one place a menu gets.
Positions(parent, g) ==
  LET placed  == UNION {Elements(Layout(s)) : s \in {Screenful}}
      anchors == {p.rect : p \in {q \in placed : q.window = parent}}
      places  == IF anchors = {} THEN {g} ELSE {Unconstrained(g, MenuArea(a)) : a \in anchors}
  IN  {<<p.x, p.y, Most(p.w, 1), Most(p.h, 1)>> : p \in places}

NewPopup ==
  \E parent \in Live(windows), g \in Positioners :
    \E position \in Positions(parent, g) :
      /\ windows.next_id < MaxWindows
      /\ windows' = OpenChild(windows, parent, "popup")
      /\ look' = [w \in DOMAIN look \cup {windows.next_id} |->
                    IF w = windows.next_id
                    THEN [NewLook(Size(Most(g.w, 1), Most(g.h, 1))) EXCEPT !.position = position]
                    ELSE look[w]]
      /\ UNCHANGED <<area, theme, strip>>

RepositionPopup ==
  \E w \in Live(windows), g \in Positioners :
    /\ windows.windows[w].role = "popup"
    /\ \E position \in Positions(windows.windows[w].parent, g) :
         look' = [look EXCEPT ![w].position = position]
    /\ UNCHANGED <<area, theme, strip, windows>>

\* toplevel_destroyed synchronises the layout; popup_destroyed does not.
CloseWindow ==
  \E w \in Live(windows) :
    LET left == Close(windows, w)
    IN  /\ windows' = IF windows.windows[w].role = "popup" THEN left ELSE Synced(left, area)
        /\ look' = [x \in Live(left) |-> look[x]]
        /\ UNCHANGED <<area, theme, strip>>

----------------------------------------------------------------------------
Init ==
  /\ area \in Areas
  /\ theme \in {Sanitised(t, "pointer") : t \in RawThemes}
  /\ strip = PlaceholderTabs
  /\ windows = Synced(EmptyModel, area)
  /\ look = << >>

Next == Resize \/ NewCard \/ SlideStrip \/ Cycle \/ ToggleFullscreen \/ Press
          \/ NewToplevel \/ Commit \/ RequestFullscreen
          \/ NewPopup \/ RepositionPopup \/ CloseWindow

Spec == Init /\ [][Next]_vars

----------------------------------------------------------------------------
(* Type and safety                                                         *)

\* Every live window has its sizes, the strip and the model are the records
\* of tab.rs and window.rs.
TypeOK ==
  /\ area \in Areas /\ strip \in Strips /\ ModelTypeOK(windows)
  /\ DOMAIN look = Live(windows)
  /\ \A w \in Live(windows) : /\ look[w].fullscreen \in BOOLEAN
                              /\ IsValid(look[w].size) /\ IsValid(look[w].min_size)

Apps == ZonesOf(area, theme).apps

Within(r, outer) == /\ outer.x <= r.x /\ Right(r) <= Right(outer)
                    /\ outer.y <= r.y /\ Bottom(r) <= Bottom(outer)

Apart(r, q) == Right(r) <= q.x \/ Right(q) <= r.x \/ Bottom(r) <= q.y \/ Bottom(q) <= r.y

\* shell.rs `zones' and `covers': on any screen, with any theme, the bars and
\* the zone between them cover the screen without a gap or an overlap, and on
\* a screen at least four units high the bars leave half of it to windows and
\* neither of them disappears.
ZonesCoverScreen ==
  LET z == ZonesOf(area, theme)
  IN  /\ Covers(z, area)
      /\ area.h >= 4 => /\ z.top_bar.h + z.bottom_bar.h <= Quot(area.h, 2)
                        /\ z.top_bar.h > 0 /\ z.bottom_bar.h > 0

\* layout.rs `tile' clamps its count by the limit of the area it is given,
\* and layout (window.rs:563) drops the windows left over: whatever was
\* resized, opened or closed, every window that holds a tile is given one, the
\* tiles stay inside the zone and never overlap, each begins where the gap after
\* the one before it ends and the last ends where the zone does (where the outer
\* gap leaves nothing of the zone there is nothing to share).
TilesShareTheZone ==
  LET tiled == Tiled(windows, Screen)
      gaps  == GapsOf(theme.metrics)
      rects == Tile(Apps, Len(tiled), EvenSplit, gaps)
      inner == Inset(Apps, gaps.outer)
      near(r) == IF IsVertical(Apps) THEN r.y ELSE r.x
      far(r)  == IF IsVertical(Apps) THEN Bottom(r) ELSE Right(r)
  IN  IsValid(inner) =>
      /\ Len(rects) = Len(tiled)
      /\ \A i \in DOMAIN rects :
           /\ Within(rects[i], inner) /\ IsValid(rects[i])
           /\ Len(rects) > 1 => far(rects[i]) - near(rects[i]) >= MinTileExtent
           /\ near(rects[i]) = IF i = 1 THEN near(inner) ELSE far(rects[i - 1]) + gaps.inner
           /\ i = Len(rects) => far(rects[i]) = far(inner)
           /\ \A j \in DOMAIN rects : i # j => Apart(rects[i], rects[j])

NothingFullscreen(v) == \A p \in Elements(v.placed) : ~look[p.window].fullscreen

\* The marks of focus are drawn without asking whether there is room: a ring
\* wider than the pad is over the shortcuts of its card, one wider than a card
\* or a menu is beside it, the mark of a chip that is not as high is above it.
RoomForTheMarks(v) ==
  LET ring == theme.metrics.focus_width
  IN  /\ ring <= theme.metrics.card_pad
      /\ \A i \in DOMAIN v.columns.cards : ring <= v.columns.cards[i].w
      /\ \A p \in Elements(v.placed) :
           p.window = windows.focus => ring <= p.rect.w /\ ring <= p.rect.h
      /\ \A i \in DOMAIN v.chips : FocusMarkH <= v.chips[i].h

\* core/input.rs:317-335, `with the same arithmetic that drew it': while no
\* window is fullscreen, a press anywhere acts on what is seen there, be it a
\* tile, a menu over it, a chip or a card hanging off the screen.
PressActsOnWhatIsSeen ==
  \A sight \in Sights :
    NothingFullscreen(sight.view) /\ RoomForTheMarks(sight.view) =>
      \A p \in Probes(sight.list) : HitTest(sight.view, p) = Seen(sight.list, p)

\* shell.rs card_columns: wherever the strip is slid to and however wide the
\* theme makes the cards, the active card is whole on the screen, no card is
\* narrowed, and the strip leaves no empty space past its ends.
ActiveCardIsWhole ==
  \A columns \in {Columns(s) : s \in {Screenful}} :
    LET m     == theme.metrics
        count == Len(strip.tabs)
        x(i)  == ColumnX(Apps, m, count, strip.active, i)
    IN  IsValid(Apps) =>
        /\ strip.active \in DOMAIN columns.cards
        /\ Within(columns.cards[strip.active], Apps)
        /\ \A i \in DOMAIN columns.cards : columns.cards[i].w = CardWidth(Apps, m)
        /\ x(0) > Apps.x => x(count) + CardWidth(Apps, m) <= Right(Apps)
        /\ x(count) + CardWidth(Apps, m) < Right(Apps) => x(0) >= Apps.x

\* shell.rs layout_tiles and tile_face: the shortcuts of a card stay between
\* its header and its lower edge and never overlap, and a shortcut's name
\* stays inside it and below its mark.
ShortcutsStayOnCard ==
  LET s       == Screenful
      m       == theme.metrics
      columns == Columns(s)
      line    == LineHeight(theme.fonts.size_tile)
  IN  \A i \in DOMAIN columns.cards :
        LET card  == columns.cards[i]
            tiles == TilesOf(s, i, card)
        IN  \A t \in DOMAIN tiles :
              LET face == TileFace(tiles[t], line)
              IN  /\ Within(tiles[t], card) /\ Apart(tiles[t], CardHeader(card, m))
                  /\ \A u \in DOMAIN tiles : u # t => Apart(tiles[t], tiles[u])
                  /\ Within(face.icon, tiles[t])
                  /\ \A c \in face.caption : Within(c, tiles[t]) /\ Apart(c, face.icon)

\* shell.rs top_bar_layout and bottom_bar_layout: on a bar of any size the
\* parts it shows lie inside it and are apart, a bar too narrow drops some of
\* them, and no chip is shown for a window the bar does not have.
BarPartsAreApart ==
  LET z     == ZonesOf(area, theme)
      l     == TopBarLayout(z.top_bar)
      parts == UNION {l[item] : item \in DOMAIN l}
      chips == Chips(Screenful)
  IN  /\ \A r \in parts : Within(r, z.top_bar)
      /\ \A r, q \in parts : r # q => Right(r) + BarGap <= q.x \/ Right(q) + BarGap <= r.x
      /\ Len(chips) <= Len(Bar(windows, Screen))
      /\ \A i \in DOMAIN chips :
           /\ Within(chips[i], z.bottom_bar)
           /\ i > 1 => chips[i].x >= Right(chips[i - 1]) + ChipGap

\* Whatever the screen and the theme, bars, cards and shortcuts fit into one
\* another.
ShellFitsTheScreen ==
  TypeOK /\ ZonesCoverScreen /\ BarPartsAreApart /\ ActiveCardIsWhole /\ ShortcutsStayOnCard

\* input.rs new_card and slide (D-007): a new card is at once the active one,
\* and the slider moves the strip by at most one column, whatever the ends do.
StripMovesByOneColumn ==
  [][LET count(s)  == Len(s.tabs)
         offset(s) == StripOffset(Apps, theme.metrics, count(s), s.active)
     IN  area' = area =>
         /\ count(strip') > count(strip) => ActiveTab(strip') = strip.next_id
         /\ SlideStrip => AbsDiff(offset(strip'), offset(strip))
                            <= CardWidth(Apps, theme.metrics) + theme.metrics.card_gap]_vars

----------------------------------------------------------------------------
(* What the comments say and the code does not keep                        *)

\* core/input.rs:319-320 `the window drawn last is the one the user is pointing
\* at', with fullscreen windows too.
PressActsOnTheTopmost ==
  \A sight \in Sights :
    RoomForTheMarks(sight.view) =>
      \A p \in Probes(sight.list) : HitTest(sight.view, p) = Seen(sight.list, p)

\* wayland/mod.rs:288-290: a menu is placed inside the zone between the bars.
MenusStayInTheZone ==
  [][\A p \in Elements(Layout(Screenful))' :
       LET w == p.window
       IN  (/\ windows'.windows[w].role = "popup"
            /\ w \notin Live(windows) \/ look'[w].position # look[w].position)
             => Within(p.rect, Apps')]_vars

\* shell.rs:28-30 `Everything the finger must hit is at least this big': on a
\* screen of ordinary height the chips of the bottom bar are touch targets.
TargetsAreTouchable ==
  area.h >= 4 * MinTouchTarget =>
    \A i \in DOMAIN Chips(Screenful) : Chips(Screenful)[i].h >= MinTouchTarget
=============================================================================
