------------------------------ MODULE MCScreen -------------------------------
(***************************************************************************)
(* Screen for TLC: real screen sizes, a screen too short for its bars, the *)
(* built-in theme and one that asks for what no screen can give.           *)
(***************************************************************************)
EXTENDS Screen

Wide     == Rect(0, 0, 1920, 1080)
Laptop   == Rect(0, 0, 1366, 768)
Phone    == Rect(0, 0, 360, 800)
Handheld == Rect(0, 0, 360, 646)  \* half of it is a tile, but for the gap
Stub     == Rect(0, 0, 400, 320)
Sliver   == Rect(0, 0, 400, 150)
Scrap    == Rect(0, 0, 90, 5)

AnyArea   == {Wide, Laptop, Phone, Handheld, Stub, Sliver, Scrap}

\* Sizes a file may ask for: too small, too large and below zero.
Lavish == [Builtin EXCEPT !.metrics.card_width = 5000, !.metrics.top_bar = 300,
                          !.metrics.bottom_bar = 0, !.metrics.inner_gap = 50,
                          !.metrics.outer_gap = 33, !.metrics.card_gap = -7]
Cramped == [Builtin EXCEPT !.metrics.card_width = 97, !.metrics.tile_unit = 1,
                           !.metrics.tile_gap = 0, !.metrics.card_pad = 0,
                           !.metrics.card_header = 5, !.metrics.focus_width = 0,
                           !.metrics.inner_gap = 7, !.fonts.size_tile = 3]

Spaced  == [Builtin EXCEPT !.metrics.inner_gap = 7, !.metrics.outer_gap = 33]

AnyTheme  == {Builtin, Lavish, Cramped, Spaced}

SomeMinimums == {Size(1, 1), Size(800, 100)}

Menu(x, y, slide) == [x |-> x, y |-> y, w |-> 200, h |-> 120, slide |-> slide]
SomeMenus == {Menu(10, 20, FALSE), Menu(900, 640, TRUE)}

----------------------------------------------------------------------------
\* What is explored together: cards on any screen with any theme and a window;
\* two windows of any kind, menus among them, on a monitor and a phone; three
\* windows with tiles of any size between wide gaps.
HasTheme(t) == theme = Sanitised(t, "pointer")
FewCards    == strip.next_id = 4
Plain       == \A w \in Live(windows) : /\ windows.windows[w].role # "popup"
                                       /\ look[w].min_size = Size(1, 1)

CardsScene   == ~HasTheme(Spaced) /\ windows.next_id <= 1 /\ Plain
WindowsScene == HasTheme(Builtin) /\ area \in {Wide, Phone} /\ windows.next_id <= 2 /\ FewCards
TilesScene   == HasTheme(Spaced) /\ area \in {Wide, Phone, Handheld} /\ Plain /\ strip = PlaceholderTabs

Scene == CardsScene \/ WindowsScene \/ TilesScene

ScreenInit == Init /\ Scene
ScreenNext == Next /\ Scene'
ScreenSpec == ScreenInit /\ [][ScreenNext]_vars
=============================================================================
