-------------------------- MODULE CompositorProofs ---------------------------
(***************************************************************************)
(* The handlers keep the window model, the surface map, the keyboard, the  *)
(* activated flags and the frames in step with each other, for any number  *)
(* of surfaces, outputs and tiles.  The invariant has one part for each;   *)
(* what a method does to the windows is shown in CoreProofs, and what is   *)
(* left is what each handler does or leaves undone around it.              *)
(***************************************************************************)
EXTENDS Compositor, CoreProofs, TLAPS

Sound(m) == Good(m) /\ FamiliesOK(m)

\* SurfacesMatchWindows, of any map and model.
Match(map, m, alive) ==
  /\ \A s \in Surfaces : map[s] # NoWindow =>
       /\ s \in alive /\ map[s] \in Live(m)
       /\ (s \in Popups) <=> (m.windows[map[s]].role = "popup")
  /\ \A w \in Live(m) : \E s \in Surfaces : \A x \in Surfaces : map[x] = w <=> x = s

ClientInv ==
  /\ limit \in Limits /\ born \subseteq Surfaces /\ dead \subseteq born
  /\ wish \in [Toplevels -> Toplevels \cup {NoSurface}]

MapInv ==
  /\ Sound(windows) /\ window_of \in [Surfaces -> Nat \cup {NoWindow}]
  /\ Match(window_of, windows, Alive)

SeatInv ==
  /\ activated \subseteq Toplevels /\ keyboard \in Surfaces \cup {NoSurface}
  /\ KeyboardFollowsFocus /\ ActivatedIsFocused

\* Only a living surface, or what is below one, waits for a frame.
CallbacksOK ==
  \A s \in callbacks : Root(s) \in Alive /\ (s \in Surfaces \/ \E t \in Toplevels : s = Below(t))

FrameInv ==
  /\ CallbacksOK /\ pending \in BOOLEAN /\ stale \in BOOLEAN /\ owed \subseteq {"sync", "frame"}
  /\ FramesAreScheduled

Inv == ClientInv /\ MapInv /\ SeatInv /\ FrameInv

USE NoWindowAssumption

LEMMA MatchIsTheProperty == SurfacesMatchWindows <=> Match(window_of, windows, Alive)
BY DEF SurfacesMatchWindows, Match

----------------------------------------------------------------------------
(* The surface map                                                         *)

\* The surface of a window is the one that is mapped to it.
LEMMA SurfaceOfIs ==
  ASSUME NEW map, NEW w, NEW s \in Surfaces, \A x \in Surfaces : map[x] = w <=> x = s
  PROVE  SurfaceOf(w, map) = s
BY DEF SurfaceOf

LEMMA SurfaceOfLive ==
  ASSUME NEW map, NEW m, NEW alive, Match(map, m, alive), NEW w \in Live(m)
  PROVE  /\ SurfaceOf(w, map) \in Surfaces
         /\ \A x \in Surfaces : map[x] = w <=> x = SurfaceOf(w, map)
<1>1. PICK s \in Surfaces : \A x \in Surfaces : map[x] = w <=> x = s
  BY DEF Match
<1>2. SurfaceOf(w, map) = s
  BY <1>1, SurfaceOfIs
<1> QED BY <1>1, <1>2

\* A window that was opened is mapped to the surface it was opened for.
LEMMA MatchAdded ==
  ASSUME NEW map, map \in [Surfaces -> Nat \cup {NoWindow}], NEW m, NEW alive,
         Match(map, m, alive), NoWindow \notin Live(m),
         NEW n, NEW id \in Nat, id \notin Live(m),
         Live(n) = Live(m) \cup {id}, \A x \in Live(m) : n.windows[x] = m.windows[x],
         NEW s \in Surfaces, s \notin alive, (s \in Popups) <=> (n.windows[id].role = "popup")
  PROVE  /\ [map EXCEPT ![s] = id] \in [Surfaces -> Nat \cup {NoWindow}]
         /\ Match([map EXCEPT ![s] = id], n, alive \cup {s})
<1> DEFINE new == [map EXCEPT ![s] = id]
<1>1. /\ new \in [Surfaces -> Nat \cup {NoWindow}]
      /\ new[s] = id /\ \A x \in Surfaces \ {s} : new[x] = map[x]
  OBVIOUS
<1> HIDE DEF new
<1>2. map[s] = NoWindow /\ \A x \in Surfaces : map[x] # id
  BY DEF Match
<1>3. ASSUME NEW x \in Surfaces, new[x] # NoWindow
      PROVE  /\ x \in alive \cup {s} /\ new[x] \in Live(n)
             /\ (x \in Popups) <=> (n.windows[new[x]].role = "popup")
  BY <1>1, <1>3 DEF Match
<1>4. ASSUME NEW w \in Live(n)
      PROVE  \E x \in Surfaces : \A y \in Surfaces : new[y] = w <=> y = x
  <2>1. CASE w = id
    BY <1>1, <1>2, <2>1
  <2>2. CASE w # id
    <3>1. w \in Live(m) /\ w # NoWindow
      BY <2>2, <1>4
    <3>2. PICK x \in Surfaces : \A y \in Surfaces : map[y] = w <=> y = x
      BY <3>1 DEF Match
    <3>3. x # s
      BY <3>1, <3>2, <1>2
    <3> QED BY <1>1, <2>2, <3>2, <3>3
  <2> QED BY <2>1, <2>2
<1> QED BY <1>1, <1>3, <1>4 DEF Match, new

\* After a window closed the lists hold the surfaces of those that are left.
LEMMA MatchRemaining ==
  ASSUME MapInv, NEW n, Live(n) \subseteq Live(windows), NoWindow \notin Live(n),
         \A w \in Live(n) : n.windows[w] = windows.windows[w],
         NEW s \in Surfaces, window_of[s] \notin Live(n)
  PROVE  /\ Remaining(n) \in [Surfaces -> Nat \cup {NoWindow}]
         /\ Match(Remaining(n), n, Alive \ {s})
<1> DEFINE new == Remaining(n)
<1>1. /\ new \in [Surfaces -> Nat \cup {NoWindow}]
      /\ \A x \in Surfaces :
           new[x] = IF window_of[x] \in Live(n) THEN window_of[x] ELSE NoWindow
  BY DEF Remaining, MapInv
<1> HIDE DEF new
<1>2. ASSUME NEW x \in Surfaces, new[x] # NoWindow
      PROVE  /\ x \in Alive \ {s} /\ new[x] \in Live(n)
             /\ (x \in Popups) <=> (n.windows[new[x]].role = "popup")
  BY <1>1, <1>2 DEF Match, MapInv
<1>3. ASSUME NEW w \in Live(n)
      PROVE  \E x \in Surfaces : \A y \in Surfaces : new[y] = w <=> y = x
  <2>1. PICK x \in Surfaces : \A y \in Surfaces : window_of[y] = w <=> y = x
    BY DEF MapInv, Match
  <2> QED BY <1>1, <1>3, <2>1
<1> QED BY <1>1, <1>2, <1>3 DEF Match, new

\* The same windows in another layout.
LEMMA MatchRearranged ==
  ASSUME NEW map, NEW m, NEW alive, Match(map, m, alive), NEW n, Rearranged(m, n)
  PROVE  Match(map, n, alive) /\ Live(n) = Live(m)
BY DEF Match, Rearranged, Live

----------------------------------------------------------------------------
(* The window model under the handlers                                     *)

LEMMA SoundRearranged ==
  ASSUME NEW m, Sound(m)
  PROVE  /\ \A c \in Nat : Sound(SetCapacity(m, Screen, c)) /\ Rearranged(m, SetCapacity(m, Screen, c))
         /\ \A f \in Live(m) : Sound(Focus(m, f)) /\ Rearranged(m, Focus(m, f))
         /\ \A id \in Live(m) : Sound(Activate(m, id)) /\ Rearranged(m, Activate(m, id))
         /\ \A forward \in BOOLEAN :
              /\ Sound(CycleFocus(m, Screen, forward))
              /\ Rearranged(m, CycleFocus(m, Screen, forward))
<1>1. Good(m) /\ FamiliesOK(m) /\ ModelTypeOK(m) /\ Screen \in Outputs
  BY ScreenAssumption DEF Sound, Good
<1>2. \A c \in Nat : Good(SetCapacity(m, Screen, c))
  BY <1>1, SetCapacityGood
<1>3. \A f \in Live(m) : Good(Focus(m, f))
  BY <1>1, FocusGood DEF Focus
<1>4. \A id \in Live(m) : Good(Activate(m, id))
  BY <1>1, ActivateGood
<1>5. \A forward \in BOOLEAN : Good(CycleFocus(m, Screen, forward))
  BY <1>1, CycleGood
<1> QED BY <1>1, <1>2, <1>3, <1>4, <1>5, SlotsChangeNoFamily, Rearranging DEF Sound

\* Reading the parent again adopts a toplevel or changes nothing: the windows
\* are those there were, and none becomes a popup or stops being one.
LEMMA RefreshKeeps ==
  ASSUME MapInv, NEW s \in Surfaces
  PROVE  LET m == RefreshMetadata(windows, s) IN
         Sound(m) /\ Live(m) = Live(windows) /\ Match(window_of, m, Alive)
<1> DEFINE m == RefreshMetadata(windows, s)
<1> DEFINE id == window_of[s]
<1> DEFINE parent == window_of[wish[s]]
<1>1. Sound(windows) /\ Match(window_of, windows, Alive)
  BY DEF MapInv
<1>2. CASE m = windows
  BY <1>1, <1>2
<1>3. CASE CanAdopt(windows, id, parent) /\ m = AdoptAsDialog(windows, id, parent)
  <2>1. Good(m) /\ FamiliesOK(m)
    BY <1>1, <1>3, AdoptGood, AdoptFamilies DEF Sound
  <2>2. /\ Live(m) = Live(windows) /\ m.windows[id].role = "dialog"
        /\ \A w \in Live(windows) \ {id} : m.windows[w] = windows.windows[w]
    BY <1>1, <1>3, AdoptChanges DEF Sound
  <2>3. windows.windows[id].role = "toplevel"
    BY <1>3 DEF CanAdopt, IsToplevel
  <2> HIDE DEF m, id
  <2>4. \A w \in Live(windows) :
          (m.windows[w].role = "popup") <=> (windows.windows[w].role = "popup")
    BY <2>2, <2>3
  <2>5. Match(window_of, m, Alive)
    BY <1>1, <2>2, <2>4 DEF Match
  <2> QED BY <2>1, <2>2, <2>5 DEF Sound, m
<1>4. m = windows \/ (CanAdopt(windows, id, parent) /\ m = AdoptAsDialog(windows, id, parent))
  BY Zenon DEF RefreshMetadata, AdoptAsDialog
<1> QED BY <1>2, <1>3, <1>4

LEMMA MapFacts ==
  ASSUME MapInv
  PROVE  /\ Good(windows) /\ FamiliesOK(windows)
         /\ Live(windows) \subseteq Nat /\ NoWindow \notin Live(windows)
         /\ windows.next_id \in Nat /\ windows.focus \in Live(windows) \cup {NoWindow}
         /\ Placed(windows, Screen) \subseteq Live(windows)
         /\ Elements(Bar(windows, Screen)) \subseteq Live(windows)
         /\ \A s \in Surfaces : window_of[s] # NoWindow => s \in Alive /\ window_of[s] \in Live(windows)
<1>1. Good(windows) /\ FamiliesOK(windows) /\ Match(window_of, windows, Alive)
  BY DEF MapInv, Sound
<1>2. /\ Live(windows) \subseteq Nat /\ windows.next_id \in Nat
      /\ windows.focus \in Live(windows) \cup {NoWindow}
  BY <1>1, ModelParts DEF Good, HandlesOK
<1>3. /\ Placed(windows, Screen) \subseteq Live(windows) /\ NoWindow \notin Live(windows)
      /\ Elements(Bar(windows, Screen)) \subseteq Live(windows)
  BY <1>1, PlacedAreLive
<1> QED BY <1>1, <1>2, <1>3 DEF Match

----------------------------------------------------------------------------
(* sync_layout                                                             *)

\* A window that waits on the bar is alive and not on screen.
LEMMA WaitingNotPlaced ==
  ASSUME NEW m, Good(m), NEW w \in Elements(Waiting(m, Screen))
  PROVE  w \in Live(m) /\ w \notin Placed(m, Screen)
<1>1. Screen \in DOMAIN m.slots
  BY DEF Waiting, Elements
<1>2. m.slots[Screen] \in Slots /\ NoDuplicates(m.slots[Screen].order)
  BY <1>1, ModelParts DEF Good, SlotsOK, TilesOK
<1>3. w \in Elements(m.slots[Screen].order) \ Elements(m.slots[Screen].tiled)
  BY <1>1, <1>2, WaitingFacts DEF Waiting
<1>4. w \in Live(m) /\ IsToplevel(m, w)
  BY <1>1, <1>3 DEF Good, BarsOK
<1> QED BY <1>1, <1>3, <1>4 DEF Placed, Tiled

\* Who is told that it has focus.
LEMMA ConfiguredFacts ==
  ASSUME NEW m, Good(m), NEW map, NEW t \in Toplevels
  PROVE  /\ OnScreen(t, m, map) => (t \in Configured(m, map) <=> map[t] = m.focus)
         /\ map[t] \in Elements(Waiting(m, Screen)) => t \notin Configured(m, map)
<1>1. OnScreen(t, m, map) <=> map[t] \in Placed(m, Screen)
  BY DEF OnScreen, Root, Surfaces
<1>2. map[t] \in Elements(Waiting(m, Screen)) => ~OnScreen(t, m, map)
  BY <1>1, WaitingNotPlaced
<1> QED BY <1>2 DEF Configured

LEMMA SyncLayoutKeeps ==
  ASSUME limit' \in Limits, activated \subseteq Toplevels,
         window_of' \in [Surfaces -> Nat \cup {NoWindow}],
         NEW m, Sound(m), Match(window_of', m, Alive'), SyncLayout(m)
  PROVE  MapInv' /\ SeatInv' /\ Live(windows') = Live(m)
<1>1. limit' \in Nat
  BY LimitsAssumption
<1>2. Sound(windows') /\ Rearranged(m, windows')
  BY <1>1, SoundRearranged, Zenon DEF SyncLayout
<1>3. MapInv' /\ Live(windows') = Live(m)
  <2>1. Match(window_of', windows', Alive') /\ Live(windows') = Live(m)
    BY <1>2, MatchRearranged
  <2> QED BY <1>2, <2>1 DEF MapInv, Sound
<1>4. KeyboardTarget(windows', window_of') \in Surfaces \cup {NoSurface}
  <2>1. CASE windows'.focus \in Placed(windows', Screen)
    <3>1. windows'.focus \in Live(windows')
      BY <1>2, <2>1, PlacedAreLive DEF Sound
    <3>2. Match(window_of', windows', Alive')
      BY <1>2, MatchRearranged
    <3> QED BY <2>1, <3>1, <3>2, SurfaceOfLive DEF KeyboardTarget
  <2>2. CASE windows'.focus \notin Placed(windows', Screen)
    BY <2>2 DEF KeyboardTarget
  <2> QED BY <2>1, <2>2
<1>5. keyboard' = KeyboardTarget(windows', window_of')
  BY DEF SyncLayout
<1>6. activated' = Configured(windows', window_of') \ dead'
  BY DEF SyncLayout
<1>7. activated' \subseteq Toplevels
  BY <1>6 DEF Configured
<1>8. ActivatedIsFocused'
  <2> SUFFICES ASSUME NEW t \in Toplevels
               PROVE  /\ OnScreen(t, windows', window_of') =>
                           (t \in activated' <=> window_of'[t] = windows'.focus)
                      /\ window_of'[t] \in Elements(Waiting(windows', Screen)) => t \notin activated'
    BY Zenon DEF ActivatedIsFocused
  <2>1. OnScreen(t, windows', window_of') => t \notin dead'
    <3>1. OnScreen(t, windows', window_of') => window_of'[t] \in Live(windows') /\ window_of'[t] # NoWindow
      BY <1>2, PlacedAreLive DEF OnScreen, Root, Surfaces, Sound
    <3>2. Match(window_of', windows', Alive')
      BY <1>2, MatchRearranged
    <3> QED BY <3>1, <3>2 DEF Match, Alive, Surfaces
  <2> QED BY <1>2, <1>6, <2>1, ConfiguredFacts DEF Sound
<1>9. KeyboardFollowsFocus'
  BY <1>5, Zenon DEF KeyboardFollowsFocus
<1> QED BY <1>3, <1>4, <1>5, <1>7, <1>8, <1>9, Zenon DEF SeatInv

\* What a handler that does not synchronise has to leave alone: focus, and
\* where the windows that stay are and whose they are.  A window that is new
\* is a menu's.
Similar ==
  /\ windows'.focus = windows.focus
  /\ \A w \in Live(windows) \cap Live(windows') :
       /\ w \in Placed(windows', Screen) <=> w \in Placed(windows, Screen)
       /\ w \in Elements(Waiting(windows', Screen)) => w \in Elements(Waiting(windows, Screen))
       /\ \A s \in Surfaces : window_of'[s] = w <=> window_of[s] = w
  /\ \A t \in Toplevels : window_of'[t] \in Live(windows') => window_of'[t] \in Live(windows)

LEMMA SeatStays ==
  ASSUME MapInv, MapInv', SeatInv, UNCHANGED syncVars,
         "sync" \notin owed' => "sync" \notin owed /\ Similar
  PROVE  SeatInv'
<1>1. /\ activated' = activated /\ keyboard' = keyboard
      /\ activated \subseteq Toplevels /\ keyboard \in Surfaces \cup {NoSurface}
  BY DEF SeatInv, syncVars
<1>2. /\ Placed(windows', Screen) \subseteq Live(windows') /\ NoWindow \notin Live(windows')
      /\ windows'.focus \in Live(windows') \cup {NoWindow}
  BY PlacedAreLive DEF MapInv, Sound, Good, HandlesOK
<1>3. /\ Placed(windows, Screen) \subseteq Live(windows) /\ NoWindow \notin Live(windows)
      /\ windows.focus \in Live(windows) \cup {NoWindow}
      /\ Match(window_of, windows, Alive)
  BY MapFacts DEF MapInv
<1>4. ASSUME "sync" \notin owed' PROVE keyboard' = KeyboardTarget(windows', window_of')
  <2>1. Similar /\ keyboard = KeyboardTarget(windows, window_of)
    BY <1>4 DEF SeatInv, KeyboardFollowsFocus
  <2> DEFINE f == windows.focus
  <2>2. windows'.focus = f /\ f \in Live(windows) \cup {NoWindow}
    BY <1>3, <2>1 DEF Similar
  <2>3. CASE f = NoWindow
    BY <1>1, <1>2, <1>3, <2>1, <2>2, <2>3 DEF KeyboardTarget
  <2>4. CASE f \in Live(windows)
    <3>1. f \in Live(windows')
      BY <1>2, <1>3, <2>2, <2>4
    <3>2. /\ f \in Placed(windows', Screen) <=> f \in Placed(windows, Screen)
          /\ \A s \in Surfaces : window_of'[s] = f <=> window_of[s] = f
      BY <2>1, <2>4, <3>1 DEF Similar
    <3> HIDE DEF f
    <3>3. /\ SurfaceOf(f, window_of) \in Surfaces
          /\ \A x \in Surfaces : window_of[x] = f <=> x = SurfaceOf(f, window_of)
      BY <1>3, <2>4, SurfaceOfLive
    <3>4. SurfaceOf(f, window_of') = SurfaceOf(f, window_of)
      BY <3>2, <3>3, SurfaceOfIs
    <3> QED BY <1>1, <2>1, <2>2, <3>2, <3>4 DEF KeyboardTarget, f
  <2> QED BY <2>2, <2>3, <2>4
<1>5. ASSUME "sync" \notin owed', NEW t \in Toplevels
      PROVE  /\ OnScreen(t, windows', window_of') =>
                  (t \in activated' <=> window_of'[t] = windows'.focus)
             /\ window_of'[t] \in Elements(Waiting(windows', Screen)) => t \notin activated'
  <2> DEFINE w == window_of'[t]
  <2>1. Similar
    BY <1>5
  <2>2. /\ OnScreen(t, windows, window_of) => (t \in activated <=> window_of[t] = windows.focus)
        /\ window_of[t] \in Elements(Waiting(windows, Screen)) => t \notin activated
    BY <1>5 DEF SeatInv, ActivatedIsFocused
  <2>3. /\ OnScreen(t, windows', window_of') <=> w \in Placed(windows', Screen)
        /\ OnScreen(t, windows, window_of) <=> window_of[t] \in Placed(windows, Screen)
    BY DEF OnScreen, Root, Surfaces
  <2>4. w \in Elements(Waiting(windows', Screen)) => w \in Live(windows')
    BY WaitingNotPlaced DEF MapInv, Sound
  <2> SUFFICES ASSUME w \in Live(windows')
               PROVE  /\ w \in Placed(windows', Screen) =>
                           (t \in activated <=> w = windows'.focus)
                      /\ w \in Elements(Waiting(windows', Screen)) => t \notin activated
    BY <1>1, <1>2, <2>3, <2>4
  <2>5. w \in Live(windows) /\ window_of[t] = w
    BY <2>1 DEF Similar, Surfaces
  <2> QED BY <2>1, <2>2, <2>3, <2>5 DEF Similar
<1>6. KeyboardFollowsFocus'
  BY <1>4, Zenon DEF KeyboardFollowsFocus
<1>7. ActivatedIsFocused'
  BY <1>5, Zenon DEF ActivatedIsFocused
<1> QED BY <1>1, <1>6, <1>7, Zenon DEF SeatInv

LEMMA NothingMoved ==
  ASSUME MapInv, SeatInv, UNCHANGED <<modelVars, syncVars>>, Alive \subseteq Alive',
         "sync" \notin owed' => "sync" \notin owed
  PROVE  MapInv' /\ SeatInv'
<1>1. windows' = windows /\ window_of' = window_of
  BY DEF modelVars
<1>2. MapInv'
  BY <1>1 DEF MapInv, Match
<1>3. Similar
  <2>1. \A t \in Toplevels : window_of[t] \in Live(windows) => window_of[t] \in Live(windows)
    OBVIOUS
  <2> QED BY <1>1 DEF Similar
<1> QED BY <1>2, <1>3, SeatStays

----------------------------------------------------------------------------
(* Frames                                                                  *)

\* A frame that is drawn settles what was owed to the screen.
LEMMA DrawKeeps ==
  ASSUME CallbacksOK, Draw, Alive' = Alive, pending' \in BOOLEAN, owed' \subseteq {"sync", "frame"}
  PROVE  FrameInv'
<1>1. /\ stale' = FALSE /\ callbacks' \subseteq callbacks
      /\ \A s \in callbacks' : ~OnScreen(s, windows', window_of')
  BY DEF Draw
<1>2. CallbacksOK'
  BY <1>1 DEF CallbacksOK
<1>3. FramesAreScheduled'
  BY <1>1, Zenon DEF FramesAreScheduled
<1> QED BY <1>1, <1>2, <1>3 DEF FrameInv

\* A handler that asks for a frame needs to show nothing else.
LEMMA RequestKeeps ==
  ASSUME CallbacksOK', RequestRedraw, NEW changed \in BOOLEAN, Undrawn(changed),
         stale \in BOOLEAN, owed' \subseteq {"sync", "frame"}
  PROVE  FrameInv'
<1>1. stale' \in BOOLEAN
  BY Zenon DEF Undrawn
<1>2. pending' = TRUE
  BY DEF RequestRedraw
<1>3. FramesAreScheduled'
  BY <1>2, Zenon DEF FramesAreScheduled
<1> QED BY <1>1, <1>2, <1>3 DEF FrameInv

LEMMA CallbacksStay ==
  ASSUME CallbacksOK, UNCHANGED callbacks, Alive \subseteq Alive'
  PROVE  CallbacksOK'
BY DEF CallbacksOK

----------------------------------------------------------------------------
(* The user and the host session                                           *)

LEMMA ClientStays ==
  ASSUME ClientInv, UNCHANGED clientVars, limit' \in Limits
  PROVE  ClientInv' /\ Alive' = Alive
BY DEF ClientInv, clientVars, Alive

\* focus_changed, after the model was laid out anew.
LEMMA FocusChangedInv ==
  ASSUME Inv, NEW m, Sound(m), Rearranged(windows, m), FocusChanged(m)
  PROVE  Inv'
<1>1. /\ UNCHANGED <<window_of, limit, clientVars, pending>>
      /\ SyncLayout(m) /\ Draw /\ owed' = {}
  BY DEF FocusChanged
<1>2. ClientInv' /\ Alive' = Alive /\ limit' \in Limits
  BY <1>1, ClientStays DEF Inv, ClientInv
<1>3. Match(window_of, m, Alive) /\ window_of' = window_of
      /\ window_of \in [Surfaces -> Nat \cup {NoWindow}] /\ activated \subseteq Toplevels
  BY <1>1, MatchRearranged DEF Inv, MapInv, SeatInv
<1>4. MapInv' /\ SeatInv'
  BY <1>1, <1>2, <1>3, SyncLayoutKeeps
<1>5. FrameInv'
  BY <1>1, <1>2, DrawKeeps DEF Inv, FrameInv
<1> QED BY <1>2, <1>4, <1>5 DEF Inv

LEMMA UserStepInv == ASSUME Inv, UserStep PROVE Inv'
<1>1. /\ Sound(windows) /\ Rearranged(windows, windows)
      /\ Placed(windows, Screen) \subseteq Live(windows)
      /\ Elements(Bar(windows, Screen)) \subseteq Live(windows)
  BY MapFacts DEF Inv, MapInv, Rearranged
<1>2. ASSUME NEW forward \in BOOLEAN, CycleKey(forward) PROVE Inv'
  BY <1>1, <1>2, SoundRearranged, FocusChangedInv DEF CycleKey
<1>3. CASE FullscreenKey
  BY <1>1, <1>3, FocusChangedInv DEF FullscreenKey
<1>4. ASSUME NEW w, PressWindow(w) PROVE Inv'
  BY <1>1, <1>4, SoundRearranged, FocusChangedInv DEF PressWindow
<1>5. ASSUME NEW w, PressChip(w) PROVE Inv'
  BY <1>1, <1>5, SoundRearranged, FocusChangedInv DEF PressChip
<1> QED BY <1>2, <1>3, <1>4, <1>5 DEF UserStep

LEMMA ResizedInv == ASSUME Inv, NEW l \in Limits, Resized(l) PROVE Inv'
<1>1. /\ limit' = l /\ UNCHANGED <<window_of, clientVars, pending>>
      /\ SyncLayout(windows) /\ Draw /\ owed' = {}
  BY DEF Resized
<1>2. ClientInv' /\ Alive' = Alive /\ limit' \in Limits
  BY <1>1, ClientStays DEF Inv
<1>3. /\ Sound(windows) /\ Match(window_of, windows, Alive) /\ window_of' = window_of
      /\ window_of \in [Surfaces -> Nat \cup {NoWindow}] /\ activated \subseteq Toplevels
  BY <1>1 DEF Inv, MapInv, SeatInv
<1>4. MapInv' /\ SeatInv'
  BY <1>1, <1>2, <1>3, SyncLayoutKeeps
<1>5. FrameInv'
  BY <1>1, <1>2, DrawKeeps DEF Inv, FrameInv
<1> QED BY <1>2, <1>4, <1>5 DEF Inv

LEMMA RedrawInv == ASSUME Inv, HostRedraw \/ ClockTurns \/ EndPass PROVE Inv'
<1>1. /\ UNCHANGED <<modelVars, limit, clientVars, syncVars>> /\ Draw
      /\ owed' = owed \ {"frame"} /\ pending' \in BOOLEAN
  BY DEF Repaint, HostRedraw, ClockTurns, EndPass, Inv, FrameInv
<1>2. ClientInv' /\ Alive' = Alive
  BY <1>1, ClientStays DEF Inv, ClientInv
<1>3. MapInv' /\ SeatInv'
  BY <1>1, <1>2, NothingMoved DEF Inv
<1>4. FrameInv'
  BY <1>1, <1>2, DrawKeeps DEF Inv, FrameInv
<1> QED BY <1>2, <1>3, <1>4 DEF Inv

----------------------------------------------------------------------------
(* Requests that synchronise nothing                                       *)

\* Nothing is called: the parent is kept, or a frame callback is.
LEMMA QuietInv ==
  ASSUME Inv, UNCHANGED <<modelVars, limit, born, dead, syncVars, pending, stale, owed>>,
         wish' \in [Toplevels -> Toplevels \cup {NoSurface}],
         \A s \in callbacks' \ callbacks :
           /\ Root(s) \in Alive /\ (s \in Surfaces \/ \E t \in Toplevels : s = Below(t))
           /\ s \in Surfaces => ~OnScreen(s, windows, window_of)
  PROVE  Inv'
<1>1. ClientInv' /\ Alive' = Alive
  BY DEF Inv, ClientInv, Alive
<1>2. MapInv' /\ SeatInv'
  BY <1>1, NothingMoved DEF Inv
<1>3. CallbacksOK'
  BY <1>1 DEF Inv, FrameInv, CallbacksOK
<1>4. FramesAreScheduled'
  <2>1. \A s : OnScreen(s, windows', window_of') <=> OnScreen(s, windows, window_of)
    BY DEF modelVars
  <2> QED BY <2>1 DEF Inv, FrameInv, FramesAreScheduled
<1> QED BY <1>1, <1>2, <1>3, <1>4 DEF Inv, FrameInv

LEMMA SetParentInv ==
  ASSUME Inv, NEW t \in Toplevels, NEW p \in Toplevels, SetParent(t, p) PROVE Inv'
<1>1. /\ UNCHANGED <<modelVars, limit, born, dead, syncVars, pending, stale, owed>>
      /\ callbacks' = callbacks /\ wish' = [wish EXCEPT ![t] = p]
  BY DEF SetParent, frameVars
<1>2. wish' \in [Toplevels -> Toplevels \cup {NoSurface}]
  BY <1>1 DEF Inv, ClientInv
<1> QED BY <1>1, <1>2, QuietInv

LEMMA CommitUnmappedInv ==
  ASSUME Inv, NEW s \in Surfaces, CommitUnmapped(s) PROVE Inv'
<1>1. /\ UNCHANGED <<modelVars, limit, born, dead, syncVars, pending, stale, owed>>
      /\ callbacks' = callbacks \cup {s} /\ wish' = wish /\ s \in Alive /\ window_of[s] = NoWindow
  BY DEF CommitUnmapped, clientVars
<1>2. ~OnScreen(s, windows, window_of) /\ Root(s) = s
  BY <1>1, MapFacts DEF OnScreen, Root, Inv
<1>3. wish' \in [Toplevels -> Toplevels \cup {NoSurface}]
  BY <1>1 DEF Inv, ClientInv
<1> QED BY <1>1, <1>2, <1>3, QuietInv

LEMMA CommitSubsurfaceInv ==
  ASSUME Inv, NEW t \in Toplevels, CommitSubsurface(t) PROVE Inv'
<1>1. /\ UNCHANGED <<modelVars, limit, born, dead, syncVars, pending, stale, owed>>
      /\ callbacks' = callbacks \cup {Below(t)} /\ wish' = wish /\ t \in Alive
  BY DEF CommitSubsurface, clientVars
<1>2. Below(t) \notin Surfaces /\ Root(Below(t)) = t
  BY SubsurfacesAssumption DEF Below, Root, Surfaces
<1>3. wish' \in [Toplevels -> Toplevels \cup {NoSurface}]
  BY <1>1 DEF Inv, ClientInv
<1> QED BY <1>1, <1>2, <1>3, QuietInv

LEMMA RepositionInv ==
  ASSUME Inv, NEW p \in Popups, RepositionRequest(p) PROVE Inv'
<1>1. /\ UNCHANGED <<modelVars, limit, clientVars, syncVars, callbacks>>
      /\ Undrawn(OnScreen(p, windows, window_of)) /\ RequestRedraw /\ owed' = owed \ {"frame"}
  BY DEF RepositionRequest
<1>2. ClientInv' /\ Alive' = Alive
  BY <1>1, ClientStays DEF Inv, ClientInv
<1>3. MapInv' /\ SeatInv'
  BY <1>1, <1>2, NothingMoved DEF Inv
<1>4. CallbacksOK'
  BY <1>1, <1>2, CallbacksStay DEF Inv, FrameInv
<1>5. OnScreen(p, windows, window_of) \in BOOLEAN
  BY DEF OnScreen
<1>6. FrameInv'
  BY <1>1, <1>4, <1>5, RequestKeeps DEF Inv, FrameInv
<1> QED BY <1>2, <1>3, <1>6 DEF Inv

----------------------------------------------------------------------------
(* Requests of a surface that is mapped                                    *)

LEMMA CommitInv == ASSUME Inv, NEW s \in Surfaces, Commit(s) PROVE Inv'
<1> DEFINE m == RefreshMetadata(windows, s)
<1>1. /\ s \in Alive /\ UNCHANGED <<window_of, limit, clientVars>>
      /\ SyncLayout(m) /\ callbacks' = callbacks \cup {s}
      /\ Undrawn(OnScreen(s, windows', window_of)) /\ RequestRedraw /\ owed' = {}
  BY DEF Commit
<1>2. ClientInv' /\ Alive' = Alive /\ limit' \in Limits
  BY <1>1, ClientStays DEF Inv, ClientInv
<1>3. /\ Sound(m) /\ Match(window_of', m, Alive') /\ activated \subseteq Toplevels
      /\ window_of' \in [Surfaces -> Nat \cup {NoWindow}]
  BY <1>1, <1>2, RefreshKeeps DEF Inv, MapInv, SeatInv
<1> HIDE DEF m
<1>4. MapInv' /\ SeatInv'
  BY <1>1, <1>2, <1>3, SyncLayoutKeeps
<1>5. CallbacksOK'
  BY <1>1, <1>2 DEF Inv, FrameInv, CallbacksOK, Root
<1>6. OnScreen(s, windows', window_of) \in BOOLEAN
  BY DEF OnScreen
<1>7. FrameInv'
  BY <1>1, <1>5, <1>6, RequestKeeps DEF Inv, FrameInv
<1> QED BY <1>2, <1>4, <1>7 DEF Inv

LEMMA FullscreenRequestInv ==
  ASSUME Inv, NEW t \in Toplevels, FullscreenRequest(t) PROVE Inv'
<1>1. /\ UNCHANGED <<window_of, limit, clientVars, callbacks>> /\ SyncLayout(windows)
      /\ Undrawn(OnScreen(t, windows', window_of)) /\ RequestRedraw /\ owed' = {}
  BY DEF FullscreenRequest
<1>2. ClientInv' /\ Alive' = Alive /\ limit' \in Limits
  BY <1>1, ClientStays DEF Inv, ClientInv
<1>3. /\ Sound(windows) /\ Match(window_of', windows, Alive') /\ activated \subseteq Toplevels
      /\ window_of' \in [Surfaces -> Nat \cup {NoWindow}]
  BY <1>1, <1>2 DEF Inv, MapInv, SeatInv
<1>4. MapInv' /\ SeatInv'
  BY <1>1, <1>2, <1>3, SyncLayoutKeeps
<1>5. CallbacksOK'
  BY <1>1, <1>2, CallbacksStay DEF Inv, FrameInv
<1>6. OnScreen(t, windows', window_of) \in BOOLEAN
  BY DEF OnScreen
<1>7. FrameInv'
  BY <1>1, <1>5, <1>6, RequestKeeps DEF Inv, FrameInv
<1> QED BY <1>2, <1>4, <1>7 DEF Inv

\* The parent is read again: an adoption is still to be synchronised.
LEMMA RefreshedInv ==
  ASSUME Inv, NEW t \in Toplevels, windows' = RefreshMetadata(windows, t),
         UNCHANGED <<window_of, limit, clientVars, syncVars, callbacks>>,
         "sync" \notin owed' => "sync" \notin owed /\ windows' = windows
  PROVE  ClientInv' /\ MapInv' /\ SeatInv' /\ CallbacksOK'
<1>1. ClientInv' /\ Alive' = Alive
  BY ClientStays DEF Inv, ClientInv
<1>2. t \in Surfaces
  BY DEF Surfaces
<1>3. MapInv'
  BY <1>1, <1>2, RefreshKeeps DEF Inv, MapInv
<1>4. ASSUME windows' = windows PROVE Similar
  <2>1. \A u \in Toplevels : window_of[u] \in Live(windows) => window_of[u] \in Live(windows)
    OBVIOUS
  <2> QED BY <1>4 DEF Similar
<1>5. SeatInv'
  BY <1>3, <1>4, SeatStays DEF Inv
<1> QED BY <1>1, <1>3, <1>5, CallbacksStay DEF Inv, FrameInv

LEMMA TitleChangedInv ==
  ASSUME Inv, NEW t \in Toplevels, TitleChanged(t) PROVE Inv'
<1>1. /\ windows' = RefreshMetadata(windows, t)
      /\ UNCHANGED <<window_of, limit, clientVars, syncVars, callbacks>>
      /\ Undrawn(TRUE) /\ RequestRedraw
      /\ owed' = (IF windows' = windows THEN owed ELSE owed \cup {"sync"}) \ {"frame"}
  BY DEF TitleChanged
<1>2. /\ owed' \subseteq {"sync", "frame"} /\ stale \in BOOLEAN
      /\ "sync" \notin owed' => "sync" \notin owed /\ windows' = windows
  BY <1>1 DEF Inv, FrameInv
<1>3. ClientInv' /\ MapInv' /\ SeatInv' /\ CallbacksOK'
  BY <1>1, <1>2, RefreshedInv
<1>4. TRUE \in BOOLEAN /\ Undrawn(TRUE) /\ RequestRedraw
  BY <1>1
<1>5. FrameInv'
  BY <1>2, <1>3, <1>4, RequestKeeps, Zenon
<1> QED BY <1>3, <1>5, Zenon DEF Inv

\* No frame is asked for: none is needed where nothing changed, and one is
\* owed where something did.
LEMMA AppIdChangedInv ==
  ASSUME Inv, NEW t \in Toplevels, AppIdChanged(t) PROVE Inv'
<1>1. /\ windows' = RefreshMetadata(windows, t)
      /\ UNCHANGED <<window_of, limit, clientVars, syncVars, callbacks, pending>>
      /\ Undrawn(FALSE)
      /\ owed' = IF windows' = windows THEN owed ELSE owed \cup {"sync", "frame"}
  BY DEF AppIdChanged
<1>2. /\ owed' \subseteq {"sync", "frame"} /\ stale \in BOOLEAN /\ pending' \in BOOLEAN
      /\ "sync" \notin owed' => "sync" \notin owed /\ windows' = windows
  BY <1>1 DEF Inv, FrameInv
<1>3. ClientInv' /\ MapInv' /\ SeatInv' /\ CallbacksOK'
  BY <1>1, <1>2, RefreshedInv
<1>4. stale' \in BOOLEAN
  BY <1>1, Zenon DEF Undrawn
<1>5. FramesAreScheduled'
  <2>1. CASE windows' = windows
    <3>1. stale' = stale
      <4>1. stale' = (stale \/ FALSE \/ Picture(windows') # Picture(windows))
        BY <1>1, Zenon DEF Undrawn
      <4>2. Picture(windows') = Picture(windows)
        BY <2>1
      <4>3. CASE stale = TRUE
        BY <4>1, <4>3, Zenon
      <4>4. CASE stale = FALSE
        BY <4>1, <4>2, <4>4
      <4> QED BY <1>2, <4>3, <4>4
    <3>2. window_of' = window_of /\ callbacks' = callbacks /\ pending' = pending /\ owed' = owed
      BY <1>1, <2>1
    <3>3. FramesAreScheduled
      BY DEF Inv, FrameInv
    <3> QED BY <2>1, <3>1, <3>2, <3>3 DEF FramesAreScheduled
  <2>2. CASE windows' # windows
    BY <1>1, <2>2, Zenon DEF FramesAreScheduled
  <2> QED BY <2>1, <2>2
<1>6. FrameInv'
  BY <1>2, <1>3, <1>4, <1>5, Zenon DEF FrameInv
<1> QED BY <1>3, <1>6, Zenon DEF Inv

----------------------------------------------------------------------------
(* Surfaces come and go                                                    *)

LEMMA BornFacts ==
  ASSUME ClientInv, NEW s \in Surfaces, Born(s), UNCHANGED <<limit, dead, wish>>
  PROVE  ClientInv' /\ s \notin Alive /\ Alive' = Alive \cup {s}
BY DEF ClientInv, Born, Alive

\* map_toplevel, of either kind.
LEMMA MapToplevelAdds ==
  ASSUME MapInv, NEW t \in Toplevels
  PROVE  LET n == MapToplevel(windows, t)
             id == windows.next_id
         IN  /\ Sound(n) /\ id \in Nat /\ id \notin Live(windows)
             /\ Live(n) = Live(windows) \cup {id} /\ n.windows[id].role # "popup"
             /\ \A x \in Live(windows) : n.windows[x] = windows.windows[x]
<1>1. Good(windows) /\ FamiliesOK(windows)
  BY DEF MapInv, Sound
<1> DEFINE parent == window_of[wish[t]]
<1>2. CASE wish[t] # NoSurface /\ parent \in Live(windows)
  <2> DEFINE n == OpenChild(windows, parent, "dialog")
  <2>1. MapToplevel(windows, t) = n
    BY <1>2, Zenon DEF MapToplevel
  <2>2. "dialog" \in {"dialog", "popup"} /\ parent \in Live(windows)
    BY <1>2
  <2> HIDE DEF parent
  <2>3. Good(n) /\ FamiliesOK(n)
    BY <1>1, <2>2, OpenChildGood, OpenChildFamilies, Zenon
  <2>4. /\ windows.next_id \in Nat /\ windows.next_id \notin Live(windows)
        /\ Live(n) = Live(windows) \cup {windows.next_id}
        /\ n.windows[windows.next_id].role = "dialog"
        /\ \A x \in Live(windows) : n.windows[x] = windows.windows[x]
    BY <1>1, <2>2, OpenChildAdds
  <2> HIDE DEF n
  <2> QED BY <2>1, <2>3, <2>4 DEF Sound
<1>3. CASE ~(wish[t] # NoSurface /\ parent \in Live(windows))
  <2> DEFINE n == OpenToplevel(windows, Screen)
  <2>1. MapToplevel(windows, t) = n
    BY <1>3, Zenon DEF MapToplevel
  <2>2. Good(n) /\ FamiliesOK(n)
    BY <1>1, ScreenAssumption, OpenToplevelGood, OpenToplevelFamilies
  <2>3. /\ windows.next_id \in Nat /\ windows.next_id \notin Live(windows)
        /\ Live(n) = Live(windows) \cup {windows.next_id}
        /\ n.windows[windows.next_id] = [role |-> "toplevel", parent |-> NoWindow, output |-> Screen]
        /\ \A x \in Live(windows) : n.windows[x] = windows.windows[x]
    BY <1>1, ScreenAssumption, OpenToplevelAdds
  <2> HIDE DEF n
  <2>4. n.windows[windows.next_id].role = "toplevel"
    BY <2>3
  <2> QED BY <2>1, <2>2, <2>3, <2>4 DEF Sound
<1> QED BY <1>2, <1>3

LEMMA NewToplevelInv == ASSUME Inv, NEW t \in Toplevels, NewToplevel(t) PROVE Inv'
<1> DEFINE n == MapToplevel(windows, t)
<1> DEFINE id == windows.next_id
<1>1. /\ Born(t) /\ UNCHANGED <<limit, dead, wish, syncVars, callbacks>>
      /\ windows' = n /\ window_of' = [window_of EXCEPT ![t] = id]
      /\ Undrawn(FALSE) /\ RequestRedraw /\ FALSE \in BOOLEAN
      /\ owed' = (owed \cup {"sync"}) \ {"frame"}
  BY DEF NewToplevel
<1>2. t \in Surfaces /\ t \notin Popups
  BY SurfacesAssumption DEF Surfaces
<1>3. ClientInv' /\ t \notin Alive /\ Alive' = Alive \cup {t}
  BY <1>1, <1>2, BornFacts DEF Inv
<1>4. /\ Sound(n) /\ id \in Nat /\ id \notin Live(windows)
      /\ Live(n) = Live(windows) \cup {id} /\ n.windows[id].role # "popup"
      /\ \A x \in Live(windows) : n.windows[x] = windows.windows[x]
  BY MapToplevelAdds DEF Inv
<1>5. /\ window_of \in [Surfaces -> Nat \cup {NoWindow}] /\ Match(window_of, windows, Alive)
      /\ NoWindow \notin Live(windows)
  BY MapFacts DEF Inv, MapInv
<1> HIDE DEF n, id
<1>6. /\ [window_of EXCEPT ![t] = id] \in [Surfaces -> Nat \cup {NoWindow}]
      /\ Match([window_of EXCEPT ![t] = id], n, Alive \cup {t})
  BY <1>2, <1>3, <1>4, <1>5, MatchAdded
<1>7. MapInv'
  BY <1>1, <1>3, <1>4, <1>6 DEF MapInv
<1>8. "sync" \in owed' /\ owed' \subseteq {"sync", "frame"} /\ stale \in BOOLEAN
  BY <1>1 DEF Inv, FrameInv
<1>9. SeatInv'
  BY <1>1, <1>7, <1>8, SeatStays DEF Inv
<1>10. CallbacksOK'
  BY <1>1, <1>3, CallbacksStay DEF Inv, FrameInv
<1>11. FrameInv'
  BY <1>1, <1>8, <1>10, RequestKeeps, Zenon
<1> QED BY <1>3, <1>7, <1>9, <1>11 DEF Inv

\* A menu is placed above what is there and moves nothing; focus stays.
LEMMA NewPopupInv ==
  ASSUME Inv, NEW p \in Popups, NEW parent \in born, NewPopup(p, parent) PROVE Inv'
<1> DEFINE w == window_of[parent]
<1> DEFINE n == OpenChild(windows, w, "popup")
<1> DEFINE id == windows.next_id
<1>1. /\ Born(p) /\ UNCHANGED <<limit, dead, wish, syncVars, callbacks>>
      /\ Undrawn(FALSE) /\ RequestRedraw /\ FALSE \in BOOLEAN
      /\ owed' = owed \ {"frame"}
  BY DEF NewPopup
<1>2. p \in Surfaces /\ p \notin Toplevels /\ parent \in Surfaces
  BY SurfacesAssumption DEF Surfaces, Inv, ClientInv
<1>3. ClientInv' /\ p \notin Alive /\ Alive' = Alive \cup {p}
  BY <1>1, <1>2, BornFacts DEF Inv
<1>4. MapInv' /\ SeatInv'
  <2>1. CASE w = NoWindow
    <3>1. UNCHANGED modelVars
      BY <2>1 DEF NewPopup
    <3> QED BY <1>1, <1>3, <3>1, NothingMoved DEF Inv
  <2>2. CASE w # NoWindow
    <3>1. windows' = n /\ window_of' = [window_of EXCEPT ![p] = id]
      BY <2>2 DEF NewPopup
    <3>2. /\ Good(windows) /\ FamiliesOK(windows) /\ NoWindow \notin Live(windows)
          /\ w \in Live(windows) /\ Match(window_of, windows, Alive)
          /\ window_of \in [Surfaces -> Nat \cup {NoWindow}]
      BY <1>2, <2>2, MapFacts DEF Inv, MapInv
    <3> HIDE DEF w
    <3>3. "popup" \in {"dialog", "popup"}
      OBVIOUS
    <3>4. Good(n) /\ FamiliesOK(n)
      BY <3>2, <3>3, OpenChildGood, OpenChildFamilies, Zenon
    <3>5. /\ id \in Nat /\ id \notin Live(windows) /\ Live(n) = Live(windows) \cup {id}
          /\ n.windows[id].role = "popup" /\ n.windows[id].parent = w
          /\ \A x \in Live(windows) : n.windows[x] = windows.windows[x]
          /\ n.slots = windows.slots /\ n.focus = windows.focus
      BY <3>2, <3>3, OpenChildAdds
    <3> HIDE DEF n, id
    <3>6. /\ [window_of EXCEPT ![p] = id] \in [Surfaces -> Nat \cup {NoWindow}]
          /\ Match([window_of EXCEPT ![p] = id], n, Alive \cup {p})
      BY <1>2, <1>3, <3>2, <3>5, MatchAdded
    <3>7. MapInv'
      BY <1>3, <3>1, <3>4, <3>6 DEF MapInv, Sound
    <3>8. Similar
      <4>1. Waiting(n, Screen) = Waiting(windows, Screen) /\ Tiled(n, Screen) = Tiled(windows, Screen)
        BY <3>5 DEF Waiting, Tiled
      <4>2. ASSUME NEW x \in Live(windows)
            PROVE  x \in Placed(n, Screen) <=> x \in Placed(windows, Screen)
        BY <3>5, <4>1 DEF Placed, IsToplevel, Live
      <4>3. \A s \in Surfaces \ {p} : window_of'[s] = window_of[s]
        BY <1>2, <3>1, <3>2
      <4>4. window_of'[p] = id /\ window_of[p] \notin Live(windows)
        BY <1>2, <1>3, <3>1, <3>2 DEF Match
      <4>5. \A x \in Live(windows) : \A s \in Surfaces : window_of'[s] = x <=> window_of[s] = x
        BY <3>5, <4>3, <4>4
      <4>6. \A t \in Toplevels : window_of'[t] \in Live(n) => window_of'[t] \in Live(windows)
        <5> SUFFICES ASSUME NEW t \in Toplevels PROVE window_of'[t] \in Live(windows) \/ window_of'[t] \notin Live(n)
          OBVIOUS
        <5>1. t \in Surfaces \ {p}
          BY <1>2 DEF Surfaces
        <5> QED BY <3>2, <3>5, <4>3, <5>1 DEF Match
      <4> QED BY <3>1, <3>5, <4>1, <4>2, <4>5, <4>6 DEF Similar
    <3>9. "sync" \notin owed' => "sync" \notin owed
      BY <1>1
    <3> QED BY <1>1, <3>7, <3>8, <3>9, SeatStays DEF Inv
  <2> QED BY <2>1, <2>2
<1>5. CallbacksOK'
  BY <1>1, <1>3, CallbacksStay DEF Inv, FrameInv
<1>6. owed' \subseteq {"sync", "frame"} /\ stale \in BOOLEAN
  BY <1>1 DEF Inv, FrameInv
<1>7. FrameInv'
  BY <1>1, <1>5, <1>6, RequestKeeps, Zenon
<1> QED BY <1>3, <1>4, <1>7 DEF Inv

LEMMA DiesFacts ==
  ASSUME ClientInv, CallbacksOK, NEW s \in Surfaces, Dies(s)
  PROVE  ClientInv' /\ CallbacksOK' /\ s \in Alive /\ Alive' = Alive \ {s}
<1>1. /\ s \in Alive /\ dead' = dead \cup {s} /\ born' = born /\ limit' = limit
      /\ wish' = [t \in Toplevels |-> IF s \in {t, wish[t]} THEN NoSurface ELSE wish[t]]
      /\ callbacks' = callbacks \ {s, Below(s)}
  BY DEF Dies
<1>2. Alive' = Alive \ {s}
  BY <1>1 DEF Alive
<1>3. wish' \in [Toplevels -> Toplevels \cup {NoSurface}]
  BY <1>1 DEF ClientInv
<1>4. ASSUME NEW x \in callbacks'
      PROVE  Root(x) \in Alive' /\ (x \in Surfaces \/ \E t \in Toplevels : x = Below(t))
  <2>1. /\ x # s /\ x # Below(s) /\ Root(x) \in Alive
        /\ x \in Surfaces \/ \E t \in Toplevels : x = Below(t)
    BY <1>1 DEF CallbacksOK
  <2>2. CASE x \in Surfaces
    BY <1>2, <2>1, <2>2 DEF Root
  <2>3. CASE x \notin Surfaces
    <3>1. PICK t \in Toplevels : x = Below(t)
      BY <2>1, <2>3
    <3>2. Root(x) = t
      BY <2>3, <3>1 DEF Root, Below
    <3> QED BY <1>2, <2>1, <3>1, <3>2
  <2> QED BY <2>2, <2>3
<1> QED BY <1>1, <1>2, <1>3, <1>4 DEF ClientInv, CallbacksOK, Alive

\* unmap_toplevel and unmap_popup: the window goes with its family, and the
\* windows that stay are what they were.
LEMMA UnmappedFacts ==
  ASSUME MapInv, NEW s \in Surfaces
  PROVE  LET n == Unmapped(s) IN
         /\ Sound(n) /\ Live(n) \subseteq Live(windows) /\ window_of[s] \notin Live(n)
         /\ \A w \in Live(n) : n.windows[w] = windows.windows[w]
         /\ Remaining(n) \in [Surfaces -> Nat \cup {NoWindow}]
         /\ Match(Remaining(n), n, Alive \ {s})
<1> DEFINE n == Unmapped(s)
<1>1. /\ Good(windows) /\ FamiliesOK(windows) /\ NoWindow \notin Live(windows)
      /\ window_of[s] # NoWindow => window_of[s] \in Live(windows)
  BY MapFacts
<1>2. /\ Sound(n) /\ Live(n) \subseteq Live(windows) /\ window_of[s] \notin Live(n)
      /\ \A w \in Live(n) : n.windows[w] = windows.windows[w]
  <2>1. CASE window_of[s] = NoWindow
    BY <1>1, <2>1 DEF Unmapped, Sound
  <2>2. CASE window_of[s] # NoWindow
    <3> DEFINE id == window_of[s]
    <3>1. n = Close(windows, id)
      BY <2>2 DEF Unmapped
    <3>2. id \in Family(windows, id)
      BY <1>1, <2>2, FamilyFacts
    <3> HIDE DEF n, id
    <3>3. Good(n) /\ FamiliesOK(n)
      BY <1>1, <3>1, CloseGood, CloseFamilies
    <3>4. /\ Live(n) = Live(windows) \ Family(windows, id)
          /\ \A w \in Live(n) : n.windows[w] = windows.windows[w]
      BY <1>1, <3>1, CloseRemoves
    <3> QED BY <3>2, <3>3, <3>4 DEF Sound, id
  <2> QED BY <2>1, <2>2
<1> HIDE DEF n
<1>3. NoWindow \notin Live(n)
  BY <1>1, <1>2
<1>4. Remaining(n) \in [Surfaces -> Nat \cup {NoWindow}] /\ Match(Remaining(n), n, Alive \ {s})
  BY <1>2, <1>3, MatchRemaining
<1> QED BY <1>2, <1>4 DEF n

LEMMA ToplevelDestroyedInv == ASSUME Inv, NEW t \in Toplevels, ToplevelDestroyed(t) PROVE Inv'
<1> DEFINE n == Unmapped(t)
<1>1. /\ Dies(t) /\ window_of' = Remaining(n) /\ SyncLayout(n)
      /\ Undrawn(FALSE) /\ RequestRedraw /\ owed' = {} /\ FALSE \in BOOLEAN
  BY DEF ToplevelDestroyed
<1>2. t \in Surfaces
  BY DEF Surfaces
<1>3. ClientInv' /\ CallbacksOK' /\ Alive' = Alive \ {t}
  BY <1>1, <1>2, DiesFacts DEF Inv, FrameInv
<1>4. /\ Sound(n) /\ Match(Remaining(n), n, Alive \ {t})
      /\ Remaining(n) \in [Surfaces -> Nat \cup {NoWindow}]
  BY <1>2, UnmappedFacts DEF Inv
<1> HIDE DEF n
<1>5. limit' \in Limits /\ activated \subseteq Toplevels /\ stale \in BOOLEAN
  BY <1>3 DEF Inv, ClientInv, SeatInv, FrameInv
<1>6. MapInv' /\ SeatInv'
  BY <1>1, <1>3, <1>4, <1>5, SyncLayoutKeeps
<1>7. owed' \subseteq {"sync", "frame"}
  BY <1>1
<1>8. FrameInv'
  BY <1>1, <1>3, <1>5, <1>7, RequestKeeps, Zenon
<1> QED BY <1>3, <1>6, <1>8 DEF Inv

\* A menu that goes moves nothing.  Nothing is synchronised either, which is
\* owed if focus was on a menu and had to go elsewhere.
LEMMA PopupDestroyedInv == ASSUME Inv, NEW p \in Popups, PopupDestroyed(p) PROVE Inv'
<1> DEFINE n == Unmapped(p)
<1> DEFINE changed == OnScreen(p, windows, window_of)
<1>1. /\ Dies(p) /\ windows' = n /\ window_of' = Remaining(n)
      /\ Undrawn(changed) /\ RequestRedraw /\ UNCHANGED syncVars
      /\ owed' = (IF n.focus = windows.focus THEN owed ELSE owed \cup {"sync"}) \ {"frame"}
  BY DEF PopupDestroyed
<1>2. p \in Surfaces /\ changed \in BOOLEAN
  BY DEF Surfaces, OnScreen
<1>3. ClientInv' /\ CallbacksOK' /\ Alive' = Alive \ {p}
  BY <1>1, <1>2, DiesFacts DEF Inv, FrameInv
<1>4. /\ Sound(n) /\ Match(Remaining(n), n, Alive \ {p})
      /\ Live(n) \subseteq Live(windows)
      /\ Remaining(n) \in [Surfaces -> Nat \cup {NoWindow}]
  BY <1>2, UnmappedFacts DEF Inv
<1>5. /\ Good(windows) /\ FamiliesOK(windows) /\ NoWindow \notin Live(windows)
      /\ Match(window_of, windows, Alive)
      /\ window_of[p] # NoWindow => window_of[p] \in Live(windows)
  BY <1>2, MapFacts DEF Inv, MapInv
<1>6. /\ \A w \in Live(n) : w \in Placed(n, Screen) <=> w \in Placed(windows, Screen)
      /\ Waiting(n, Screen) = Waiting(windows, Screen)
  <2>1. CASE window_of[p] = NoWindow
    BY <2>1 DEF Unmapped
  <2>2. CASE window_of[p] # NoWindow
    <3>1. window_of[p] \in Live(windows) /\ ~IsToplevel(windows, window_of[p])
      BY <1>2, <1>5, <2>2 DEF Match, IsToplevel
    <3>2. n = Close(windows, window_of[p])
      BY <2>2 DEF Unmapped
    <3> HIDE DEF n
    <3> QED BY <1>5, <3>1, <3>2, CloseChild
  <2> QED BY <2>1, <2>2
<1>7. \A s \in Surfaces :
        Remaining(n)[s] = IF window_of[s] \in Live(n) THEN window_of[s] ELSE NoWindow
  BY DEF Remaining
<1> HIDE DEF n, changed
<1>8. MapInv'
  BY <1>1, <1>3, <1>4 DEF MapInv
<1>9. ASSUME n.focus = windows.focus PROVE Similar
  <2>1. NoWindow \notin Live(n)
    BY <1>4, <1>5
  <2>2. ASSUME NEW w \in Live(windows) \cap Live(n), NEW s \in Surfaces
        PROVE  window_of'[s] = w <=> window_of[s] = w
    BY <1>1, <1>7, <2>1, <2>2
  <2>3. ASSUME NEW t \in Toplevels, window_of'[t] \in Live(n) PROVE window_of'[t] \in Live(windows)
    BY <1>4, <2>3
  <2> QED BY <1>1, <1>6, <1>9, <2>2, <2>3 DEF Similar
<1>10. "sync" \notin owed' => "sync" \notin owed /\ Similar
  BY <1>1, <1>9
<1>11. SeatInv'
  BY <1>1, <1>8, <1>10, SeatStays DEF Inv
<1>12. owed' \subseteq {"sync", "frame"} /\ stale \in BOOLEAN
  BY <1>1 DEF Inv, FrameInv
<1>13. FrameInv'
  BY <1>1, <1>2, <1>3, <1>12, RequestKeeps, Zenon
<1> QED BY <1>3, <1>8, <1>11, <1>13 DEF Inv

----------------------------------------------------------------------------
(* Every behaviour                                                         *)

LEMMA InitInv == Init => Inv
<1> SUFFICES ASSUME Init PROVE Inv
  OBVIOUS
<1>1. /\ limit \in Limits /\ windows = SetCapacity(EmptyModel, Screen, limit)
      /\ window_of = [s \in Surfaces |-> NoWindow]
      /\ born = {} /\ dead = {} /\ wish = [t \in Toplevels |-> NoSurface]
      /\ activated = {} /\ keyboard = NoSurface
      /\ callbacks = {} /\ pending = FALSE /\ stale = FALSE /\ owed = {}
  BY DEF Init
<1>2. Sound(EmptyModel) /\ Live(EmptyModel) = {} /\ limit \in Nat
  BY <1>1, EmptyIsGood, LimitsAssumption DEF Sound, FamiliesOK, Live, EmptyModel
<1>3. Sound(windows) /\ Live(windows) = {}
  BY <1>1, <1>2, SoundRearranged DEF Rearranged, Live
<1>4. MapInv
  BY <1>1, <1>3 DEF MapInv, Match
<1>5. Placed(windows, Screen) = {}
  BY <1>3, PlacedAreLive DEF Sound
<1>6. Elements(Waiting(windows, Screen)) = {}
  BY <1>3, WaitingNotPlaced DEF Sound
<1>7. SeatInv
  BY <1>1, <1>5, <1>6 DEF SeatInv, KeyboardFollowsFocus, KeyboardTarget, ActivatedIsFocused,
     OnScreen
<1>8. FrameInv
  BY <1>1 DEF FrameInv, CallbacksOK, FramesAreScheduled
<1>9. ClientInv
  BY <1>1 DEF ClientInv
<1> QED BY <1>4, <1>7, <1>8, <1>9 DEF Inv

LEMMA StutterInv == ASSUME Inv, UNCHANGED vars PROVE Inv'
<1>1. /\ UNCHANGED <<modelVars, limit, born, dead, syncVars, pending, stale, owed>>
      /\ wish' = wish /\ callbacks' = callbacks
  BY DEF vars, clientVars, frameVars
<1>2. wish' \in [Toplevels -> Toplevels \cup {NoSurface}]
  BY <1>1 DEF Inv, ClientInv
<1> QED BY <1>1, <1>2, QuietInv

LEMMA ClientStepInv == ASSUME Inv, ClientStep PROVE Inv'
<1>1. CASE \E t \in Toplevels : CommitSubsurface(t) \/ NewToplevel(t) \/ TitleChanged(t)
                                  \/ AppIdChanged(t) \/ FullscreenRequest(t) \/ ToplevelDestroyed(t)
  BY <1>1, CommitSubsurfaceInv, NewToplevelInv, TitleChangedInv, AppIdChangedInv,
     FullscreenRequestInv, ToplevelDestroyedInv
<1>2. CASE \E t, p \in Toplevels : SetParent(t, p)
  BY <1>2, SetParentInv
<1>3. CASE \E s \in Surfaces : Commit(s) \/ CommitUnmapped(s)
  BY <1>3, CommitInv, CommitUnmappedInv
<1>4. CASE \E p \in Popups : PopupDestroyed(p) \/ RepositionRequest(p)
  BY <1>4, PopupDestroyedInv, RepositionInv
<1>5. CASE \E p \in Popups, parent \in born : NewPopup(p, parent)
  BY <1>5, NewPopupInv
<1> QED BY <1>1, <1>2, <1>3, <1>4, <1>5 DEF ClientStep

LEMMA NextInv == Inv /\ [Next]_vars => Inv'
<1> SUFFICES ASSUME Inv, [Next]_vars PROVE Inv'
  OBVIOUS
<1>1. CASE ClientStep
  BY <1>1, ClientStepInv
<1>2. CASE UserStep
  BY <1>2, UserStepInv
<1>3. CASE HostStep \/ EndPass
  BY <1>3, RedrawInv, ResizedInv DEF HostStep
<1>4. CASE UNCHANGED vars
  BY <1>4, StutterInv
<1> QED BY <1>1, <1>2, <1>3, <1>4 DEF Next

LEMMA SpecInv == Spec => []Inv
<1>1. Spec => Init /\ [][Next]_vars
  BY PTL DEF Spec
<1> QED BY <1>1, InitInv, NextInv, PTL

\* Whatever clients and the user do, in whatever order, the window model stays
\* sound, and the lists of mapped surfaces name its windows and no others:
\* each window is drawn from exactly one living surface of the right kind
\* (wayland/mod.rs:350-384).
THEOREM MapsAlwaysSound == Spec => []MapsStaySound
<1>1. Inv => MapsStaySound
  <2> SUFFICES ASSUME Inv PROVE MapsStaySound
    OBVIOUS
  <2>1. ModelTypeOK(windows) /\ ModelStaysSound
    BY DEF Inv, MapInv, Sound, Good, ModelStaysSound
  <2>2. SurfacesMatchWindows
    BY MatchIsTheProperty DEF Inv, MapInv
  <2>3. {Root(s) : s \in callbacks} \subseteq Alive
    BY DEF Inv, FrameInv, CallbacksOK
  <2> QED BY <2>1, <2>2, <2>3 DEF Inv, ClientInv, MapInv, SeatInv, FrameInv, TypeOK, MapsStaySound
<1> QED BY <1>1, SpecInv, PTL

\* Once the layout has been synchronised the keyboard is on the surface of the
\* focused window if that is on screen, and nowhere else
\* (backend/winit.rs:548-550), for any number of surfaces.
THEOREM KeyboardAlwaysFollows == Spec => []KeyboardFollowsFocus
<1>1. Inv => KeyboardFollowsFocus
  BY DEF Inv, SeatInv
<1> QED BY <1>1, SpecInv, PTL

\* Of the windows on screen the focused one alone was told that it is active,
\* and no window that waits on the bar was (wayland/mod.rs:478, 503-509).
THEOREM ActivatedAlwaysFocused == Spec => []ActivatedIsFocused
<1>1. Inv => ActivatedIsFocused
  BY DEF Inv, SeatInv
<1> QED BY <1>1, SpecInv, PTL

\* When the screen no longer matches the state, or a window on screen waits for
\* its frame callback, a frame has been asked for (backend/winit.rs:103), but
\* for the app id that arrives after set_parent.
THEOREM FramesAlwaysScheduled == Spec => []FramesAreScheduled
<1>1. Inv => FramesAreScheduled
  BY DEF Inv, FrameInv
<1> QED BY <1>1, SpecInv, PTL
=============================================================================
