----------------------------- MODULE Compositor ------------------------------
(***************************************************************************)
(* The compositor around the window model: the xdg-shell handlers of       *)
(* wayland/handlers.rs with the surface map of wayland/mod.rs, the focus   *)
(* and keyboard rules of input.rs and the drawing half of backend/winit.rs.*)
(*                                                                         *)
(* One thread runs everything: a handler is one step, with every call it   *)
(* makes, and EndPass is the callback calloop runs after each dispatch.    *)
(* Which handler comes next is the clients' and the user's choice.  A      *)
(* surface lives once and is never reborn.  A frame never fails to draw    *)
(* here (EventLoop has failing frames), and the seat has a keyboard.       *)
(*                                                                         *)
(* smithay is external: it keeps the parent a toplevel asked for, the      *)
(* frame callbacks of a surface and the keyboard's focus.                  *)
(***************************************************************************)
EXTENDS WindowOps

CONSTANTS Toplevels,  \* xdg_toplevel surfaces clients may ever create
          Popups,     \* xdg_popup surfaces clients may ever create
          NoSurface,  \* Option::None for a WlSurface
          Screen,     \* the nested window's output
          Limits,     \* the tile limits the sizes of the nested window give
          HasSubsurfaces, \* whether clients put subsurfaces into their windows
          MaxSurfaces \* bound of the model: how many surfaces are created

ASSUME ScreenAssumption == Screen \in Outputs
ASSUME SurfacesAssumption == Toplevels \cap Popups = {} /\ NoSurface \notin Toplevels \cup Popups
ASSUME SubsurfacesAssumption ==  \* a subsurface is a surface of its own; see Below
  HasSubsurfaces \in BOOLEAN /\ \A t \in Toplevels : <<"below", t>> \notin Toplevels \cup Popups
ASSUME LimitsAssumption == Limits \subseteq Nat /\ MaxSurfaces \in Nat

Surfaces == Toplevels \cup Popups

VARIABLES
  windows,    \* State.windows: the WindowModel
  window_of,  \* Wayland.toplevels and .popups: the window a surface is mapped to
  limit,      \* tile_limit of the current size
  born, dead, \* the surfaces clients have created, and destroyed
  wish,       \* the parent each toplevel asked for with set_parent
  activated,  \* the toplevels whose last configure said Activated
  keyboard,   \* keyboard.current_focus
  callbacks,  \* the surfaces and subsurfaces with an unanswered wl_surface.frame
  pending,    \* State.pending: a frame has been asked for
  stale,      \* what is on screen is not what would be drawn
  owed        \* history: what changed the model and left undone, of
              \* "sync" (no sync_layout since) and "frame" (none asked for)

modelVars == <<windows, window_of>>
clientVars == <<born, dead, wish>>
syncVars == <<activated, keyboard>>
frameVars == <<callbacks, pending, stale>>
vars == <<modelVars, limit, clientVars, syncVars, frameVars, owed>>

Alive == born \ dead

----------------------------------------------------------------------------
(* The surface map and what is on screen                                   *)

\* surface_of, for a window that is mapped.
SurfaceOf(w, map) == CHOOSE s \in Surfaces : map[s] = w

\* The subsurface of a toplevel: a surface of its own that is no window, with
\* the toplevel at the root of its tree.
Below(t) == <<"below", t>>
Root(s)  == IF s \in Surfaces THEN s ELSE s[2]

OnScreen(s, m, map) == map[Root(s)] \in Placed(m, Screen)

\* Everything display_list draws of the model: the tiles, their floating
\* children, the chips of the bar and what is focused.
Picture(m) == <<Tiled(m, Screen), Placed(m, Screen), Bar(m, Screen), m.focus>>

\* map_toplevel: a toplevel that already named a mapped parent is a dialog.
\* (At creation none has: set_parent needs the toplevel to exist.)
MapToplevel(m, t) ==
  IF wish[t] # NoSurface /\ window_of[wish[t]] \in Live(m)
  THEN OpenChild(m, window_of[wish[t]], "dialog")
  ELSE OpenToplevel(m, Screen)

\* unmap_toplevel and unmap_popup: close the window of s ...
Unmapped(s) == IF window_of[s] = NoWindow THEN windows ELSE Close(windows, window_of[s])

\* Variant: the menus of a window that closes stay in the list.
Remaining_KeepsPopups(m) ==
  [s \in Surfaces |-> IF window_of[s] \in Live(m) \/ s \in Popups
                      THEN window_of[s] ELSE NoWindow]

\* ... and forget every surface, of either list, whose window went with it.
Remaining(m) ==
  [s \in Surfaces |-> IF window_of[s] \in Live(m) THEN window_of[s] ELSE NoWindow]

\* refresh_metadata: the parent is read again; titles and sizes are left out.
RefreshMetadata(m, s) ==
  IF s \in Toplevels /\ wish[s] # NoSurface /\ window_of[wish[s]] # NoWindow
  THEN AdoptAsDialog(m, window_of[s], window_of[wish[s]])
  ELSE m

----------------------------------------------------------------------------
(* sync_layout                                                             *)

\* Variant: the flag is only ever added.
Configured_OnlySets(m, map) ==
  activated \cup {t \in Toplevels : OnScreen(t, m, map) /\ map[t] = m.focus}

\* configure: placed toplevels are told whether they have focus, waiting ones
\* that they do not; the others keep what they were last told.
Configured(m, map) ==
  LET placed == {t \in Toplevels : OnScreen(t, m, map)}
      told   == placed \cup {t \in Toplevels : map[t] \in Elements(Waiting(m, Screen))}
  IN  (activated \ told) \cup {t \in placed : map[t] = m.focus}

\* refresh_keyboard_focus: the focused window's surface, if it is on screen.
KeyboardTarget(m, map) ==
  IF m.focus \in Placed(m, Screen) THEN SurfaceOf(m.focus, map) ELSE NoSurface

\* Variant: the keyboard is not re-aimed.
SyncLayout_KeepsKeyboard(m) ==
  /\ windows' = SetCapacity(m, Screen, limit')
  /\ activated' = Configured(windows', window_of') \ dead'
  /\ UNCHANGED keyboard

\* sync_layout, on the model m and the surface map of the next state.
SyncLayout(m) ==
  /\ windows' = SetCapacity(m, Screen, limit')
  /\ activated' = Configured(windows', window_of') \ dead'
  /\ keyboard' = KeyboardTarget(windows', window_of')

\* Variant: only the windows themselves are told, not what is below them.
Draw_RootsOnly ==
  /\ stale' = FALSE
  /\ callbacks' = {s \in callbacks : s \notin Surfaces \/ ~OnScreen(s, windows', window_of')}

\* try_draw, when nothing fails: the picture is the model's, and the frame
\* callbacks of what was drawn are answered.
Draw ==
  /\ stale' = FALSE
  /\ callbacks' = {s \in callbacks : ~OnScreen(s, windows', window_of')}

Undrawn(changed) == stale' = (stale \/ changed \/ Picture(windows') # Picture(windows))

RequestRedraw == pending' = TRUE

\* focus_changed, after the model became m.
FocusChanged(m) ==
  /\ UNCHANGED <<window_of, limit, clientVars, pending>>
  /\ SyncLayout(m) /\ Draw
  /\ owed' = {}

----------------------------------------------------------------------------
(* What clients do                                                         *)

Born(s) ==
  /\ s \notin born /\ Cardinality(born) < MaxSurfaces
  /\ born' = born \cup {s}

\* No configure and no sync_layout: they wait for the first commit.
NewToplevel(t) ==
  /\ Born(t)
  /\ windows' = MapToplevel(windows, t)
  /\ window_of' = [window_of EXCEPT ![t] = windows.next_id]
  /\ Undrawn(FALSE) /\ RequestRedraw
  /\ owed' = (owed \cup {"sync"}) \ {"frame"}
  /\ UNCHANGED <<limit, dead, wish, syncVars, callbacks>>

\* xdg_toplevel.set_parent: smithay keeps it, nothing is called.  Only a
\* window that is still a toplevel is ever adopted, so only its wish counts.
SetParent(t, p) ==
  /\ t \in Alive /\ p \in (Alive \cap Toplevels) \ {t} /\ wish[t] # p
  /\ window_of[t] # NoWindow /\ IsToplevel(windows, window_of[t])
  /\ wish' = [wish EXCEPT ![t] = p]
  /\ UNCHANGED <<modelVars, limit, born, dead, syncVars, frameVars, owed>>

\* wl_surface.commit, here always with a wl_surface.frame: a commit without
\* one does the same and leaves less to answer.  A surface that is not mapped
\* is passed over.
CommitUnmapped(s) ==
  /\ s \in Alive /\ window_of[s] = NoWindow
  /\ callbacks' = callbacks \cup {s}
  /\ UNCHANGED <<modelVars, limit, clientVars, syncVars, pending, stale, owed>>

\* A desynchronised subsurface commits by itself, and is passed over too; its
\* buffer is not drawn, but its frame callback hangs on its root's.
CommitSubsurface(t) ==
  /\ HasSubsurfaces /\ t \in Alive
  /\ callbacks' = callbacks \cup {Below(t)}
  /\ UNCHANGED <<modelVars, limit, clientVars, syncVars, pending, stale, owed>>

Commit(s) ==
  /\ s \in Alive /\ window_of[s] # NoWindow
  /\ UNCHANGED <<window_of, limit, clientVars>>
  /\ SyncLayout(RefreshMetadata(windows, s))
  /\ callbacks' = callbacks \cup {s}
  /\ Undrawn(OnScreen(s, windows', window_of)) /\ RequestRedraw
  /\ owed' = {}

\* A new title is a reason to draw; the parent is read again on the way.
TitleChanged(t) ==
  /\ t \in Alive \cap Toplevels /\ window_of[t] # NoWindow
  /\ windows' = RefreshMetadata(windows, t)
  /\ Undrawn(TRUE) /\ RequestRedraw
  /\ owed' = (IF windows' = windows THEN owed ELSE owed \cup {"sync"}) \ {"frame"}
  /\ UNCHANGED <<window_of, limit, clientVars, syncVars, callbacks>>

\* Nothing shows the app id; the parent is read again on the way here too.
AppIdChanged(t) ==
  /\ t \in Alive \cap Toplevels /\ window_of[t] # NoWindow
  /\ windows' = RefreshMetadata(windows, t)
  /\ Undrawn(FALSE)
  /\ owed' = IF windows' = windows THEN owed ELSE owed \cup {"sync", "frame"}
  /\ UNCHANGED <<window_of, limit, clientVars, syncVars, callbacks, pending>>

\* A surface that is gone is in no list and answers to no callback.
Dies(s) ==
  /\ s \in Alive /\ dead' = dead \cup {s}
  /\ wish' = [t \in Toplevels |-> IF s \in {t, wish[t]} THEN NoSurface ELSE wish[t]]
  /\ callbacks' = callbacks \ {s, Below(s)}
  /\ UNCHANGED <<born, limit>>

ToplevelDestroyed(t) ==
  /\ t \in Toplevels /\ Dies(t)
  /\ window_of' = Remaining(Unmapped(t))
  /\ SyncLayout(Unmapped(t))
  /\ Undrawn(FALSE) /\ RequestRedraw
  /\ owed' = {}

\* map_popup: a popup whose parent is no window of ours is ignored.
NewPopup(p, parent) ==
  /\ Born(p)
  /\ IF window_of[parent] = NoWindow
     THEN UNCHANGED modelVars
     ELSE /\ windows' = OpenChild(windows, window_of[parent], "popup")
          /\ window_of' = [window_of EXCEPT ![p] = windows.next_id]
  /\ Undrawn(FALSE) /\ RequestRedraw
  /\ owed' = owed \ {"frame"}
  /\ UNCHANGED <<limit, dead, wish, syncVars, callbacks>>

\* The menu is forgotten, and nothing is synchronised.
PopupDestroyed(p) ==
  /\ p \in Popups /\ Dies(p)
  /\ windows' = Unmapped(p) /\ window_of' = Remaining(windows')
  /\ Undrawn(OnScreen(p, windows, window_of)) /\ RequestRedraw
  /\ owed' = (IF windows'.focus = windows.focus THEN owed ELSE owed \cup {"sync"}) \ {"frame"}
  /\ UNCHANGED syncVars

RepositionRequest(p) ==
  /\ p \in Alive \cap Popups
  /\ UNCHANGED <<modelVars, limit, clientVars, syncVars, callbacks>>
  /\ Undrawn(OnScreen(p, windows, window_of)) /\ RequestRedraw
  /\ owed' = owed \ {"frame"}

\* Variant: the frame is not asked for.
FullscreenRequest_NoRedraw(t) ==
  /\ t \in Alive \cap Toplevels /\ window_of[t] # NoWindow
  /\ UNCHANGED <<window_of, limit, clientVars, callbacks, pending>>
  /\ SyncLayout(windows)
  /\ Undrawn(OnScreen(t, windows', window_of))
  /\ owed' = {}

\* fullscreen_request and unfullscreen_request: the flag changes where the
\* window is drawn.
FullscreenRequest(t) ==
  /\ t \in Alive \cap Toplevels /\ window_of[t] # NoWindow
  /\ UNCHANGED <<window_of, limit, clientVars, callbacks>>
  /\ SyncLayout(windows)
  /\ Undrawn(OnScreen(t, windows', window_of)) /\ RequestRedraw
  /\ owed' = {}

----------------------------------------------------------------------------
(* What the user and the host session do                                   *)

CycleKey(forward) ==
  /\ Bar(windows, Screen) # << >>
  /\ FocusChanged(CycleFocus(windows, Screen, forward))

FullscreenKey == windows.focus # NoWindow /\ FocusChanged(windows)

\* A press on a window that is on screen.
PressWindow(w) ==
  /\ w \in Placed(windows, Screen) /\ windows.focus # w
  /\ FocusChanged(Focus(windows, w))

PressChip(w) ==
  /\ w \in Elements(Bar(windows, Screen))
  /\ FocusChanged(Activate(windows, w))

Resized(l) ==
  /\ l # limit /\ limit' = l
  /\ UNCHANGED <<window_of, clientVars, pending>>
  /\ SyncLayout(windows) /\ Draw
  /\ owed' = {}

\* A frame of what there is; whoever changed it was answered or will be.
Repaint ==
  /\ UNCHANGED <<modelVars, limit, clientVars, syncVars>>
  /\ Draw /\ owed' = owed \ {"frame"}

\* The host asks for the window to be painted again.
HostRedraw == Repaint /\ UNCHANGED pending

\* Variant: the clock paints its own text and leaves the clients waiting.
ClockTurns_AnswersNobody ==
  /\ UNCHANGED <<modelVars, limit, clientVars, syncVars, callbacks, pending>>
  /\ stale' = FALSE /\ owed' = owed \ {"frame"}

\* The minute turns: tick_clock draws at once, whatever is pending.  What its
\* timer waits for is EventLoop's.
ClockTurns == Repaint /\ UNCHANGED pending

\* The loop's callback, once per pass, after everything dispatched.
EndPass == pending /\ pending' = FALSE /\ Repaint

----------------------------------------------------------------------------

\* run: the first layout and the first frame, before any client.
Init ==
  /\ limit \in Limits
  /\ windows = SetCapacity(EmptyModel, Screen, limit)
  /\ window_of = [s \in Surfaces |-> NoWindow]
  /\ born = {} /\ dead = {} /\ wish = [t \in Toplevels |-> NoSurface]
  /\ activated = {} /\ keyboard = NoSurface
  /\ callbacks = {} /\ pending = FALSE /\ stale = FALSE
  /\ owed = {}

ClientStep ==
  \/ \E t \in Toplevels : CommitSubsurface(t) \/ NewToplevel(t) \/ TitleChanged(t) \/ AppIdChanged(t)
                            \/ FullscreenRequest(t) \/ ToplevelDestroyed(t)
  \/ \E t, p \in Toplevels : SetParent(t, p)
  \/ \E s \in Surfaces : Commit(s) \/ CommitUnmapped(s)
  \/ \E p \in Popups : PopupDestroyed(p) \/ RepositionRequest(p)
  \/ \E p \in Popups, parent \in born : NewPopup(p, parent)

UserStep ==
  \/ \E forward \in BOOLEAN : CycleKey(forward)
  \/ FullscreenKey
  \/ \E w \in Live(windows) : PressWindow(w) \/ PressChip(w)

HostStep == HostRedraw \/ ClockTurns \/ \E l \in Limits : Resized(l)

Next == ClientStep \/ UserStep \/ HostStep \/ EndPass

\* calloop runs the callback after every dispatch, so a pass always ends.
Fairness == WF_vars(EndPass)

Spec == Init /\ [][Next]_vars /\ Fairness

----------------------------------------------------------------------------
(* Type and safety                                                         *)

\* Every variable is what the Rust state keeps; only living surfaces wait for
\* a frame or have a window.
TypeOK ==
  /\ ModelTypeOK(windows)
  /\ window_of \in [Surfaces -> Nat \cup {NoWindow}]
  /\ limit \in Limits
  /\ born \subseteq Surfaces /\ dead \subseteq born
  /\ wish \in [Toplevels -> Toplevels \cup {NoSurface}]
  /\ activated \subseteq Toplevels /\ keyboard \in Surfaces \cup {NoSurface}
  /\ {Root(s) : s \in callbacks} \subseteq Alive
  /\ pending \in BOOLEAN /\ stale \in BOOLEAN /\ owed \subseteq {"sync", "frame"}

\* Whatever clients and the user do, in whatever order, the handlers leave the
\* window model sound: no hole while a window waits, every toplevel on the
\* bar, families that are trees, focus on a window that exists.
ModelStaysSound ==
  SlotsOK(windows) /\ BarsOK(windows) /\ FamiliesOK(windows) /\ HandlesOK(windows)

\* The two lists of mapped surfaces and the window model describe the same
\* windows: each window is drawn from exactly one living surface, of the kind
\* its role asks for, and no list names a window that is gone
\* (wayland/mod.rs:350-384).
SurfacesMatchWindows ==
  /\ \A s \in Surfaces : window_of[s] # NoWindow =>
       /\ s \in Alive /\ window_of[s] \in Live(windows)
       /\ (s \in Popups) <=> (windows.windows[window_of[s]].role = "popup")
  /\ \A w \in Live(windows) : \E s \in Surfaces :
       \A x \in Surfaces : window_of[x] = w <=> x = s

\* The window model and the surface map, through every handler.
MapsStaySound == TypeOK /\ ModelStaysSound /\ SurfacesMatchWindows

\* "The keyboard has to be re-aimed here and not only where focus is set"
\* (backend/winit.rs:548-550): once the layout has been synchronised the
\* keyboard is on the focused window if that is on screen, and nowhere else.
KeyboardFollowsFocus ==
  "sync" \notin owed => keyboard = KeyboardTarget(windows, window_of)

\* Of the windows on screen the focused one alone was told that it is active,
\* and no window that waits on the bar was (wayland/mod.rs:478, 503-509).
ActivatedIsFocused ==
  "sync" \notin owed =>
    \A t \in Toplevels :
      /\ OnScreen(t, windows, window_of) =>
           (t \in activated <=> window_of[t] = windows.focus)
      /\ window_of[t] \in Elements(Waiting(windows, Screen)) => t \notin activated

\* "Something changed and the screen no longer matches the state"
\* (backend/winit.rs:103): then a frame is on its way, and so it is while a
\* window on screen waits for its frame callback.  The exception is an app id
\* that arrives after set_parent, which changes the picture and asks for
\* nothing (owed).
FramesAreScheduled ==
  "frame" \notin owed =>
    /\ stale => pending
    /\ \A s \in callbacks \cap Surfaces : OnScreen(s, windows, window_of) => pending

\* "Answer the wl_surface.frame requests of a surface and its subsurfaces"
\* (backend/winit.rs:703): once a frame is on its way, whoever asked for it, a
\* subsurface of a window that stays on screen is told with its window.
SubsurfaceRidesAlong ==
  \A t \in Toplevels :
    (Below(t) \in callbacks /\ OnScreen(t, windows, window_of) /\ pending)
      ~> (Below(t) \notin callbacks \/ ~OnScreen(t, windows, window_of))

\* "A client that asked 'tell me when to draw again' gets told"
\* (backend/winit.rs:684-686): as long as minutes turn, whatever is on screen is
\* answered or leaves the screen, also what no handler asked a frame for: a
\* desynchronised subsurface, and a dialog an app id brought up.
EverybodyIsAnswered ==
  WF_vars(ClockTurns) =>
    \A s \in Toplevels \cup {Below(t) : t \in Toplevels} :
      (s \in callbacks /\ OnScreen(s, windows, window_of))
        ~> (s \notin callbacks \/ ~OnScreen(s, windows, window_of))

----------------------------------------------------------------------------
(* What the comments say and the handlers do not keep                      *)

\* "A popup does not [take focus], because a menu closing must not leave focus
\* dangling on a surface that lived for 200 ms" (window.rs:246-247).
KeyboardNeverDangles == keyboard # NoSurface => window_of[keyboard] # NoWindow

\* "A window that lost its tile is not drawn, so it must not think it is
\* focused" (wayland/mod.rs:500-501).
ActivatedIsOnScreen ==
  "sync" \notin owed =>
    \A t \in activated : window_of[t] # NoWindow => OnScreen(t, windows, window_of)

\* No surface is dropped, "which would leave the client waiting for a configure
\* forever" (wayland/mod.rs:276-278): a living toplevel has a window.
EveryToplevelHasAWindow == \A t \in Alive \cap Toplevels : window_of[t] # NoWindow

\* "Something changed and the screen no longer matches the state"
\* (backend/winit.rs:103): then a frame is asked for, and not only drawn when
\* the minute turns.
NoPictureIsStale == stale => pending
=============================================================================
