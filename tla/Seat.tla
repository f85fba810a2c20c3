--------------------------------- MODULE Seat ---------------------------------
(***************************************************************************)
(* Three devices and where their events go: gostui-compositor/src/input.rs *)
(* with the key bindings of gostui-core/src/input.rs and the pointer       *)
(* constraints of wayland/handlers.rs.                                     *)
(*                                                                         *)
(* The screen is a grid: its last row is the bottom bar, one chip to a     *)
(* column, the rows above are shared by the tiles from left to right.      *)
(* Menus, cards and fullscreen windows are Screen's; here what matters is  *)
(* that windows move and go under a pointer that stands still.  A window   *)
(* stands for its surface, and the origin of an event for the window whose *)
(* corner was used.                                                        *)
(*                                                                         *)
(* smithay is external: it keeps the focus of each device, sends the       *)
(* events, holds the pointer on a window while a button is down, and ends  *)
(* a lock when the pointer leaves.  The seat has all three devices.        *)
(***************************************************************************)
EXTENDS WindowOps

CONSTANTS Screen,     \* the nested window's output
          Shapes,     \* the sizes of the screen: its rows and its tile limit
          Columns,    \* its width, in columns
          Clients, NoClient,
          Keys,       \* the keys a user may press
          Fingers,     \* the fingers a user may put down
          HasPointer, \* whether there is a pointer to move
          MaxButtons, MaxWindows \* bounds of the model

ASSUME ScreenAssumption == Screen \in Outputs
ASSUME ClientAssumption == NoClient \notin Clients
ASSUME ShapeAssumption == /\ Columns \in Nat \ {0}
                          /\ Shapes \subseteq [rows : Nat \ {0}, limit : Nat]
ASSUME BoundsAssumption == MaxButtons \in Nat /\ MaxWindows \in Nat

VARIABLES
  windows,   \* State.windows
  owner,     \* the client of each window
  shape,     \* the size of the nested window
  keyboard,  \* the window with the keyboard
  held,      \* the keys that are down
  forwarded, \* the keys whose press went to a client
  told,      \* the keys the client with the keyboard was told are down
  selection, \* the clients that may read the clipboard and the primary selection
  device,    \* where the host's pointer is
  location,  \* State.pointer_location
  pointer,   \* smithay's focus, the one asked for last, and the buttons down
  lock,      \* the window with an active lock
  touch_focus, \* State.touch_focus: a window and a slot, or nothing
  fingers,   \* the fingers that are down, and the window smithay sends them to
  event,     \* the device event that was handled last
  sent       \* what clients were sent because of it

keyVars     == <<keyboard, held, forwarded, told, selection>>
pointerVars == <<device, location, pointer, lock>>
touchVars   == <<touch_focus, fingers>>
vars == <<windows, owner, shape, keyVars, pointerVars, touchVars, event, sent>>

\* A map with one more entry, or another value for one.
Put(map, key, value) ==
  [x \in DOMAIN map \cup {key} |-> IF x = key THEN value ELSE map[x]]

Places == [x : 0..(Columns - 1), y : 0..(shape.rows - 1)]

----------------------------------------------------------------------------
(* What is where                                                           *)

OnWindow(w) == [part |-> "window", window |-> w]
OnChip(i)   == [part |-> "chip", chip |-> i]
OnShell     == [part |-> "shell"]

\* hit, of a place that may have been left outside by a smaller screen.
HitAt(p) ==
  LET tiled == Tiled(windows, Screen)
      bar   == Bar(windows, Screen)
  IN  IF p.y = shape.rows - 1 /\ p.x < Len(bar) THEN OnChip(p.x + 1)
      ELSE IF p.y >= shape.rows - 1 \/ tiled = << >> THEN OnShell
      ELSE OnWindow(tiled[(p.x * Len(tiled)) \div Columns + 1])

\* pointer_focus: the window under the pointer.
PointerFocus(p) == IF HitAt(p).part = "window" THEN HitAt(p).window ELSE NoWindow

\* An event of a client's, unless there is none to have it.
Sent(what, w, origin) ==
  IF w = NoWindow THEN {} ELSE {[what |-> what, to |-> w, origin |-> origin]}

----------------------------------------------------------------------------
(* Focus                                                                   *)

\* Variant: the primary selection is left with the last client.
Selected_ClipboardOnly(client) == [selection EXCEPT !.clipboard = client]

Selected(client) == [clipboard |-> client, primary |-> client]

\* Variant: with no window to go to, the keyboard stays where it is.
RefreshKeyboardFocus_NeverLeaves(m, owners) ==
  LET target == IF m.focus \in Placed(m, Screen) THEN m.focus ELSE NoWindow
  IN  IF target \in {keyboard, NoWindow} THEN UNCHANGED <<keyboard, told, selection>>
      ELSE /\ keyboard' = target
           /\ told' = forwarded
           /\ selection' = Selected(owners[target])

\* refresh_keyboard_focus: smithay tells the new client of the keys that are
\* down; the selections follow.
RefreshKeyboardFocus(m, owners) ==
  LET target == IF m.focus \in Placed(m, Screen) THEN m.focus ELSE NoWindow
  IN  IF target = keyboard THEN UNCHANGED <<keyboard, told, selection>>
      ELSE /\ keyboard' = target
           /\ told' = IF target = NoWindow THEN {} ELSE forwarded
           /\ selection' = Selected(IF target = NoWindow THEN NoClient ELSE owners[target])

SyncLayout(m) == /\ windows' = SetCapacity(m, Screen, shape'.limit)
                 /\ RefreshKeyboardFocus(windows', owner')

FocusChanged(m) == UNCHANGED <<owner, shape>> /\ SyncLayout(m)

NoFocusChange == UNCHANGED <<windows, owner, shape, keyboard, told, selection>>

\* press, on what is under the place; the cards are Screen's.
PressAt(p) ==
  LET hit == HitAt(p)
  IN  CASE hit.part = "window" /\ windows.focus # hit.window ->
             FocusChanged(Focus(windows, hit.window))
        [] hit.part = "chip" ->
             FocusChanged(Activate(windows, Bar(windows, Screen)[hit.chip]))
        [] OTHER -> NoFocusChange

----------------------------------------------------------------------------
(* The keyboard                                                            *)

Modifiers == {"shift", "ctrl", "alt", "logo"}

\* Mods::from_flags, of the keys that are down.
Mods(down) == down \cap Modifiers

\* Keymap::bind: a later binding of the same combination replaces it.
Bind(map, key, mods, action) == Put(map, <<key, mods>>, action)

\* Keymap::default.
DefaultKeymap ==
  LET m1 == Bind(<< >>, "tab", {"logo"}, "focus_next_window")
      m2 == Bind(m1, "tab", {"logo", "shift"}, "focus_previous_window")
      m3 == Bind(m2, "q", {"logo"}, "close_window")
      m4 == Bind(m3, "f", {"logo"}, "toggle_fullscreen")
      m5 == Bind(m4, "right", {"logo"}, "activate_next_card")
      m6 == Bind(m5, "left", {"logo"}, "activate_previous_card")
  IN  Bind(m6, "n", {"logo"}, "new_card")

\* Keymap::action: modifiers match exactly.
Actions(key, mods) ==
  {DefaultKeymap[b] : b \in {c \in DOMAIN DefaultKeymap : c = <<key, mods>>}}

\* The symbol of a key with Shift held is another one, which nothing binds.
Symbol(key, mods) == IF "shift" \in mods THEN "shifted" ELSE key

\* on_key: the symbol of the layout first, then the raw one.
Shortcut(key, mods) ==
  IF Actions(Symbol(key, mods), mods) # {} THEN Actions(Symbol(key, mods), mods)
  ELSE Actions(key, mods)

\* run: asking a window to close changes nothing yet, the cards are Screen's,
\* and a fullscreen window is synchronised like any other.
RunAction(action) ==
  \/ /\ action \in {"focus_next_window", "focus_previous_window"}
     /\ IF Bar(windows, Screen) = << >> THEN NoFocusChange
        ELSE FocusChanged(CycleFocus(windows, Screen, action = "focus_next_window"))
  \/ /\ action = "toggle_fullscreen"
     /\ IF windows.focus = NoWindow THEN NoFocusChange ELSE FocusChanged(windows)
  \/ /\ action \in {"close_window", "activate_next_card", "activate_previous_card", "new_card"}
     /\ NoFocusChange

KeyDown(k) ==
  /\ k \notin held /\ held' = held \cup {k}
  /\ event' = [kind |-> "key_down"]
  /\ \/ /\ \E action \in Shortcut(k, Mods(held')) : RunAction(action)
        /\ sent' = {} /\ UNCHANGED forwarded
     \/ /\ Shortcut(k, Mods(held')) = {}
        /\ forwarded' = forwarded \cup {k}
        /\ told' = IF keyboard = NoWindow THEN {} ELSE told \cup {k}
        /\ sent' = Sent("key", keyboard, keyboard)
        /\ UNCHANGED <<windows, owner, shape, keyboard, selection>>
  /\ UNCHANGED <<pointerVars, touchVars>>

\* Only presses are shortcuts: every release goes to the window with focus.
KeyUp(k) ==
  /\ k \in held /\ held' = held \ {k}
  /\ event' = [kind |-> "key_up", known |-> k \in told]
  /\ forwarded' = forwarded \ {k} /\ told' = told \ {k}
  /\ sent' = Sent("key", keyboard, keyboard)
  /\ UNCHANGED <<windows, owner, shape, keyboard, selection, pointerVars, touchVars>>

----------------------------------------------------------------------------
(* The pointer                                                             *)

\* pointer_locked: the surface under the pointer holds an active lock.
PointerLocked == lock # NoWindow /\ pointer.focus = lock

\* Variant: the lock is told the movement and the pointer moves all the same.
Moved_Anyway(p) == p

Moved(p) == IF PointerLocked THEN location ELSE p

\* smithay: while a button is down the focus stays, and the lock with it.
PointTo(w) ==
  LET focus == IF pointer.buttons > 0 THEN pointer.focus ELSE w
  IN  /\ pointer' = [pointer EXCEPT !.focus = focus, !.pending = w]
      /\ lock' = IF lock = focus THEN lock ELSE NoWindow

Way(p, q) == <<q.x - p.x, q.y - p.y>>

\* on_pointer_motion: the motion, and the way from the old location.
PointerMotion(p) ==
  /\ HasPointer /\ device' = p
  /\ location' = Moved(p)
  /\ PointTo(PointerFocus(location'))
  /\ event' = [kind |-> "motion", delta |-> Way(location, p), moved |-> Way(device, p)]
  /\ sent' = Sent("motion", pointer'.focus, pointer'.focus)
  /\ UNCHANGED <<windows, owner, shape, keyVars, touchVars>>

\* A press first does to the shell what it does, then goes where the last
\* motion put the pointer.
ButtonDown ==
  /\ HasPointer /\ pointer.buttons < MaxButtons
  /\ event' = [kind |-> "button_down", hit |-> HitAt(location)]
  /\ PressAt(location)
  /\ pointer' = [pointer EXCEPT !.buttons = @ + 1]
  /\ sent' = Sent("button", pointer.focus, pointer.focus)
  /\ UNCHANGED <<held, forwarded, device, location, lock, touchVars>>

ButtonUp ==
  LET last == pointer.buttons = 1
  IN  /\ pointer.buttons > 0
      /\ event' = [kind |-> "button_up"]
      /\ pointer' = [pointer EXCEPT !.buttons = @ - 1,
                                    !.focus = IF last THEN pointer.pending ELSE @]
      /\ lock' = IF lock = pointer'.focus THEN lock ELSE NoWindow
      /\ sent' = Sent("button", pointer.focus, pointer.focus)
      /\ UNCHANGED <<windows, owner, shape, keyVars, device, location, touchVars>>

\* on_pointer_axis, whatever the amounts.
PointerAxis ==
  /\ HasPointer
  /\ event' = [kind |-> "axis"]
  /\ sent' = Sent("axis", pointer.focus, pointer.focus)
  /\ UNCHANGED <<windows, owner, shape, keyVars, pointerVars, touchVars>>

----------------------------------------------------------------------------
(* Touch                                                                   *)

\* on_touch_down: the shell first, then the window that was under the finger.
TouchDown(f, p) ==
  LET hit == HitAt(p)
      w   == IF hit.part = "window" THEN hit.window ELSE NoWindow
  IN  /\ f \notin DOMAIN fingers
      /\ event' = [kind |-> "touch_down", slot |-> f]
      /\ PressAt(p)
      /\ touch_focus' = IF w \in Placed(windows', Screen) THEN <<w, f>> ELSE touch_focus
      /\ fingers' = Put(fingers, f, IF w \in Placed(windows', Screen) THEN w ELSE NoWindow)
      /\ sent' = Sent("touch", fingers'[f], w)
      /\ UNCHANGED <<held, forwarded, pointerVars>>

\* Variant: whichever finger moves, the last window touched is its origin.
Follows_AnySlot(f) == touch_focus # << >> /\ touch_focus[1] \in Placed(windows, Screen)

\* on_touch_motion: is it the finger State remembers, on a window on screen?
Follows(f) == /\ touch_focus # << >> /\ touch_focus[2] = f
              /\ touch_focus[1] \in Placed(windows, Screen)

TouchMotion(f) ==
  /\ f \in DOMAIN fingers
  /\ event' = [kind |-> "touch_motion", slot |-> f]
  /\ sent' = IF Follows(f) THEN Sent("touch", fingers[f], touch_focus[1]) ELSE {}
  /\ UNCHANGED <<windows, owner, shape, keyVars, pointerVars, touchVars>>

TouchUp(f) ==
  /\ f \in DOMAIN fingers
  /\ event' = [kind |-> "touch_up", slot |-> f]
  /\ touch_focus' = IF touch_focus # << >> /\ touch_focus[2] = f THEN << >> ELSE touch_focus
  /\ fingers' = [g \in DOMAIN fingers \ {f} |-> fingers[g]]
  /\ sent' = Sent("touch", fingers[f], fingers[f])
  /\ UNCHANGED <<windows, owner, shape, keyVars, pointerVars>>

TouchCancel ==
  /\ fingers # << >> /\ fingers' = << >> /\ touch_focus' = << >>
  /\ event' = [kind |-> "touch_cancel"]
  /\ sent' = UNION {Sent("touch", fingers[f], fingers[f]) : f \in DOMAIN fingers}
  /\ UNCHANGED <<windows, owner, shape, keyVars, pointerVars>>

----------------------------------------------------------------------------
(* The clients and the host                                                *)

Quiet == event' = [kind |-> "none"] /\ sent' = {}

NewToplevel ==
  /\ windows.next_id < MaxWindows
  /\ windows' = OpenToplevel(windows, Screen)
  /\ \E c \in Clients : owner' = Put(owner, windows.next_id, c)
  /\ Quiet /\ UNCHANGED <<shape, keyVars, pointerVars, touchVars>>

Commit == /\ Live(windows) # {} /\ FocusChanged(windows)
          /\ Quiet /\ UNCHANGED <<held, forwarded, pointerVars, touchVars>>

\* Variant: the pointer, and the lock with it, stay on the window that is gone.
Destroy_KeepsPointer(w) ==
  LET still(v) == IF v = w THEN NoWindow ELSE v
  IN  /\ w \in Live(windows)
      /\ owner' = [v \in DOMAIN owner \ {w} |-> owner[v]]
      /\ UNCHANGED shape /\ SyncLayout(Close(windows, w))
      /\ fingers' = [f \in DOMAIN fingers |-> still(fingers[f])]
      /\ Quiet /\ UNCHANGED <<held, forwarded, pointerVars, touch_focus>>

\* Variant: a finger stays on the window that is gone.
Destroy_KeepsFingers(w) ==
  LET still(v) == IF v = w THEN NoWindow ELSE v
  IN  /\ w \in Live(windows)
      /\ owner' = [v \in DOMAIN owner \ {w} |-> owner[v]]
      /\ UNCHANGED shape /\ SyncLayout(Close(windows, w))
      /\ pointer' = [pointer EXCEPT !.focus = still(@), !.pending = still(@)]
      /\ lock' = still(lock)
      /\ Quiet /\ UNCHANGED <<held, forwarded, device, location, touchVars>>

\* smithay forgets a surface that is gone; State.touch_focus does not.
Destroy(w) ==
  LET still(v) == IF v = w THEN NoWindow ELSE v
  IN  /\ w \in Live(windows)
      /\ owner' = [v \in DOMAIN owner \ {w} |-> owner[v]]
      /\ UNCHANGED shape /\ SyncLayout(Close(windows, w))
      /\ pointer' = [pointer EXCEPT !.focus = still(@), !.pending = still(@)]
      /\ lock' = still(lock)
      /\ fingers' = [f \in DOMAIN fingers |-> still(fingers[f])]
      /\ Quiet /\ UNCHANGED <<held, forwarded, device, location, touch_focus>>

\* Variant: any window may have the lock.
Grants_Anywhere(w, kind) == kind = "lock"

\* new_constraint: a lock, for the window under the pointer; no confinement.
Grants(w, kind) == pointer.focus = w /\ kind = "lock"

NewConstraint(w, kind) ==
  /\ HasPointer /\ w \in Live(windows) /\ lock = NoWindow
  /\ Grants(w, kind) /\ lock' = w
  /\ Quiet /\ UNCHANGED <<windows, owner, shape, keyVars, device, location, pointer, touchVars>>

EndConstraint ==
  /\ lock # NoWindow /\ lock' = NoWindow
  /\ Quiet /\ UNCHANGED <<windows, owner, shape, keyVars, device, location, pointer, touchVars>>

Resized ==
  /\ shape' \in Shapes /\ UNCHANGED owner
  /\ SyncLayout(windows)
  /\ Quiet /\ UNCHANGED <<held, forwarded, pointerVars, touchVars>>

Init ==
  /\ shape \in Shapes
  /\ windows = SetCapacity(EmptyModel, Screen, shape.limit)
  /\ owner = << >>
  /\ keyboard = NoWindow /\ held = {} /\ forwarded = {} /\ told = {}
  /\ selection = [clipboard |-> NoClient, primary |-> NoClient]
  /\ device = [x |-> 0, y |-> 0] /\ location = device
  /\ pointer = [focus |-> NoWindow, pending |-> NoWindow, buttons |-> 0]
  /\ lock = NoWindow /\ touch_focus = << >> /\ fingers = << >>
  /\ event = [kind |-> "none"] /\ sent = {}

KeyboardNext == \E k \in Keys : KeyDown(k) \/ KeyUp(k)

PointerNext == \/ \E p \in Places : PointerMotion(p)
               \/ ButtonDown \/ ButtonUp \/ PointerAxis
               \/ \E w \in Live(windows), kind \in {"lock", "confine"} : NewConstraint(w, kind)
               \/ EndConstraint

TouchNext == \/ \E f \in Fingers, p \in Places : TouchDown(f, p)
             \/ \E f \in Fingers : TouchMotion(f) \/ TouchUp(f)
             \/ TouchCancel

Next == \/ KeyboardNext \/ PointerNext \/ TouchNext
        \/ NewToplevel \/ Commit \/ Resized
        \/ \E w \in Live(windows) : Destroy(w)

Spec == Init /\ [][Next]_vars

----------------------------------------------------------------------------
(* Type and safety                                                         *)

\* No device is left pointing at a window that is gone: the keyboard, the
\* pointer and its lock and every finger are on live windows or on none
\* (input.rs:297-331), an event goes to a window that was there, and a client
\* is told of no key but the ones that are down and were sent on.
TypeOK ==
  /\ ModelTypeOK(windows) /\ DOMAIN owner = Live(windows) /\ shape \in Shapes
  /\ {keyboard, lock, pointer.focus, pointer.pending} \subseteq Live(windows) \cup {NoWindow}
  /\ forwarded \subseteq held /\ told \subseteq forwarded /\ held \subseteq Keys
  /\ \A f \in DOMAIN fingers : fingers[f] \in Live(windows) \cup {NoWindow}
  /\ \A s \in sent : s.to \in Live(windows)

\* handlers.rs:139-144 `would let a background application capture the
\* cursor': whatever opens, closes and moves, the pointer is held only by the
\* window the pointer is on.
LockIsUnderThePointer == lock # NoWindow => pointer.focus = lock

\* input.rs:340-347: while a lock lasts the pointer stands still.
LockedPointerStandsStill == [][lock # NoWindow /\ lock' = lock => location' = location]_vars

\* A lock is its window's: it lasts while the pointer is there, and the pointer
\* stays there while it lasts.
LockHolds == []LockIsUnderThePointer /\ LockedPointerStandsStill

\* input.rs:315-331: the clipboard and the primary selection are readable by
\* the client that has the keyboard, and by no other, after any change of
\* focus, layout or clients.
SelectionFollowsKeyboard ==
  LET client == IF keyboard = NoWindow THEN NoClient ELSE owner[keyboard]
  IN  selection.clipboard = client /\ selection.primary = client

\* input.rs:622-628: whichever fingers are down and however they come and go,
\* a point is reported from the corner of the window its finger is on.
TouchPointsAreInTheirOwnWindow == \A s \in sent : s.origin = s.to

----------------------------------------------------------------------------
(* What the comments say and the code does not keep                        *)

\* handlers.rs:132-134 `the cursor stands still and the client is told the
\* movement instead': what a locked client is told is how far the device went.
MovementIsTold == event.kind = "motion" /\ lock # NoWindow => event.delta = event.moved

\* input.rs:509-510 `Consumed, so a press on system space never reaches an
\* application'.
SystemPressesAreConsumed ==
  event.kind = "button_down" /\ event.hit.part # "window" => sent = {}

\* input.rs:622-623 `A finger that went down on a window keeps that window for as
\* long as it is down'.
FingerKeepsItsWindow ==
  event.kind = "touch_motion" /\ fingers[event.slot] \in Placed(windows, Screen) => sent # {}

\* input.rs:118-120 `the client never saw the press, so it has nothing to
\* release': a client hears of a release only when it knows the key is down.
ReleasesWerePressed == event.kind = "key_up" /\ sent # {} => event.known
=============================================================================
