----------------------------- MODULE SeatProofs ------------------------------
(***************************************************************************)
(* Where the events of three devices go, for any number of windows,        *)
(* clients, keys and fingers and a screen of any size.                     *)
(*                                                                         *)
(* The invariant says of each device what it holds on to: a live window or *)
(* none, and of what was sent that a client is told of a window of its     *)
(* own.  A window, once gone, never comes back: its handle is not given    *)
(* out again, which is why a finger's window may be remembered for longer  *)
(* than it lives.                                                          *)
(***************************************************************************)
EXTENDS Seat, CoreProofs, TLAPS

MaybeLive(m) == Live(m) \cup {NoWindow}

\* Every window is a toplevel, as NewToplevel opens them.
AllToplevels(m) == \A w \in Live(m) : m.windows[w].parent = NoWindow

ModelInv ==
  /\ Good(windows) /\ AllToplevels(windows)
  /\ DOMAIN owner = Live(windows)
  /\ shape \in Shapes

KeyInv ==
  /\ keyboard \in MaybeLive(windows)
  /\ forwarded \subseteq held /\ told \subseteq forwarded /\ held \subseteq Keys
  /\ SelectionFollowsKeyboard

PointerInv ==
  /\ pointer = [focus |-> pointer.focus, pending |-> pointer.pending,
                buttons |-> pointer.buttons]
  /\ {lock, pointer.focus, pointer.pending} \subseteq MaybeLive(windows)
  /\ location.x \in 0..(Columns - 1)
  /\ LockIsUnderThePointer

\* State remembers one finger that is down, and the window that finger went
\* down on: if the window is still there, the finger is on it.
TouchInv ==
  /\ \A f \in DOMAIN fingers : fingers[f] \in MaybeLive(windows)
  /\ touch_focus # << >> =>
       /\ touch_focus[1] \in Nat /\ touch_focus[1] < windows.next_id
       /\ touch_focus[2] \in DOMAIN fingers
       /\ touch_focus[1] \in Live(windows) => fingers[touch_focus[2]] = touch_focus[1]

SentInv == \A s \in sent : s.to \in Live(windows) /\ s.origin = s.to

Inv == ModelInv /\ KeyInv /\ PointerInv /\ TouchInv /\ SentInv

USE ScreenAssumption, NoWindowAssumption

----------------------------------------------------------------------------
(* The window model                                                        *)

\* The same windows in a good model, on other tiles or with another focus.
LaidOut(m, n) == Good(n) /\ Rearranged(m, n)

LEMMA LaidOutLive ==
  ASSUME NEW m, NEW n, LaidOut(m, n)
  PROVE  Live(n) = Live(m) /\ (AllToplevels(m) => AllToplevels(n))
BY DEF LaidOut, Rearranged, Live, AllToplevels

LEMMA MethodsLayOut ==
  ASSUME NEW m, Good(m)
  PROVE  /\ \A c \in Nat : LaidOut(m, SetCapacity(m, Screen, c))
         /\ \A f \in MaybeLive(m) : LaidOut(m, Focus(m, f))
         /\ \A id \in Live(m) : LaidOut(m, Activate(m, id))
         /\ \A forward \in BOOLEAN : LaidOut(m, CycleFocus(m, Screen, forward))
<1>1. ModelTypeOK(m)
  BY DEF Good
<1>2. \A c \in Nat : Good(SetCapacity(m, Screen, c))
  BY SetCapacityGood
<1>3. \A f \in MaybeLive(m) : Good(Focus(m, f))
  BY FocusGood DEF Focus, MaybeLive
<1>4. \A id \in Live(m) : Good(Activate(m, id))
  BY ActivateGood
<1>5. \A forward \in BOOLEAN : Good(CycleFocus(m, Screen, forward))
  BY CycleGood
<1> QED BY <1>1, <1>2, <1>3, <1>4, <1>5, Rearranging DEF LaidOut

\* A new window has a handle that no window has or had.
LEMMA NewWindowAdds ==
  ASSUME NEW m, Good(m), AllToplevels(m)
  PROVE  LET n == OpenToplevel(m, Screen) IN
         /\ Good(n) /\ AllToplevels(n)
         /\ Live(n) = Live(m) \cup {m.next_id} /\ n.next_id = m.next_id + 1
         /\ m.next_id \in Nat /\ m.next_id \notin Live(m)
<1> DEFINE n == OpenToplevel(m, Screen)
<1>1. Good(n)
  BY OpenToplevelGood
<1>2. /\ m.next_id \in Nat /\ m.next_id \notin Live(m) /\ n.next_id = m.next_id + 1
      /\ Live(n) = Live(m) \cup {m.next_id}
      /\ n.windows[m.next_id] = [role |-> "toplevel", parent |-> NoWindow, output |-> Screen]
      /\ \A x \in Live(m) : n.windows[x] = m.windows[x]
  BY OpenToplevelAdds
<1> HIDE DEF n
<1>3. AllToplevels(n)
  BY <1>2 DEF AllToplevels
<1> QED BY <1>1, <1>2, <1>3 DEF n

\* A window that closes takes no other with it.
LEMMA WindowGoes ==
  ASSUME NEW m, Good(m), AllToplevels(m), NEW id \in Live(m)
  PROVE  LET n == Close(m, id) IN
         /\ Good(n) /\ AllToplevels(n)
         /\ Live(n) = Live(m) \ {id} /\ n.next_id = m.next_id
<1>1. Live(m) \subseteq Nat
  BY ModelParts DEF Good
<1>2. Family(m, id) = {id}
  <2>1. Closed(m, {id})
    BY <1>1 DEF Closed, AllToplevels
  <2>2. {id} \in SUBSET Live(m) /\ id \in {id}
    OBVIOUS
  <2>3. Family(m, id) \subseteq {id}
    BY <2>1, <2>2, FamilyFacts
  <2> QED BY <2>3, FamilyFacts
<1> DEFINE n == Close(m, id)
<1>3. /\ Good(n) /\ Live(n) = Live(m) \ Family(m, id) /\ n.next_id = m.next_id
      /\ \A w \in Live(n) : n.windows[w] = m.windows[w]
  BY CloseGood, CloseRemoves
<1> HIDE DEF n
<1>4. AllToplevels(n)
  BY <1>3 DEF AllToplevels
<1> QED BY <1>2, <1>3, <1>4 DEF n

----------------------------------------------------------------------------
(* Focus                                                                   *)

\* What a handler that ends in refresh_keyboard_focus leaves as it should be.
Synced == /\ ModelInv'
          /\ keyboard' \in MaybeLive(windows')
          /\ told' \subseteq forwarded
          /\ SelectionFollowsKeyboard'

LEMMA SyncLayoutKeeps ==
  ASSUME KeyInv, shape' \in Shapes, NEW m, Good(m), AllToplevels(m), DOMAIN owner' = Live(m),
         \A w \in Live(m) : owner'[w] = owner[w],
         SyncLayout(m)
  PROVE  Synced /\ Live(windows') = Live(m) /\ windows'.next_id = m.next_id
<1>1. shape'.limit \in Nat
  BY ShapeAssumption
<1>2. LaidOut(m, windows')
  BY <1>1, MethodsLayOut, Zenon DEF SyncLayout
<1>3. /\ Good(windows') /\ AllToplevels(windows')
      /\ Live(windows') = Live(m) /\ windows'.next_id = m.next_id
  BY <1>2, LaidOutLive DEF LaidOut, Rearranged
<1>4. Placed(windows', Screen) \subseteq Live(m) /\ NoWindow \notin Live(m)
  BY <1>3, PlacedAreLive
<1> DEFINE target == IF windows'.focus \in Placed(windows', Screen)
                     THEN windows'.focus ELSE NoWindow
<1>5. target \in Live(m) \cup {NoWindow}
  BY <1>4
<1>6. IF target = keyboard THEN UNCHANGED <<keyboard, told, selection>>
      ELSE /\ keyboard' = target
           /\ told' = IF target = NoWindow THEN {} ELSE forwarded
           /\ selection' = Selected(IF target = NoWindow THEN NoClient ELSE owner'[target])
  BY DEF SyncLayout, RefreshKeyboardFocus
<1> HIDE DEF target
<1>7. keyboard' = target
  BY <1>6
<1>8. told' \subseteq forwarded
  BY <1>6 DEF KeyInv
<1>9. SelectionFollowsKeyboard'
  <2>1. CASE target = keyboard
    BY <1>4, <1>5, <1>6, <2>1 DEF KeyInv, SelectionFollowsKeyboard
  <2>2. CASE target # keyboard
    BY <1>6, <2>2 DEF SelectionFollowsKeyboard, Selected
  <2> QED BY <2>1, <2>2
<1> QED BY <1>3, <1>5, <1>7, <1>8, <1>9 DEF Synced, ModelInv, MaybeLive

LEMMA FocusChangedKeeps ==
  ASSUME ModelInv, KeyInv, NEW m, LaidOut(windows, m), FocusChanged(m)
  PROVE  Synced /\ Live(windows') = Live(windows) /\ windows'.next_id = windows.next_id
<1>1. Good(m) /\ Live(m) = Live(windows) /\ AllToplevels(m) /\ m.next_id = windows.next_id
  BY LaidOutLive DEF ModelInv, LaidOut, Rearranged
<1>2. shape' \in Shapes /\ DOMAIN owner' = Live(m) /\ owner' = owner /\ SyncLayout(m)
  BY <1>1 DEF FocusChanged, ModelInv
<1> QED BY <1>1, <1>2, SyncLayoutKeeps

LEMMA NoFocusChangeKeeps ==
  ASSUME ModelInv, KeyInv, NoFocusChange
  PROVE  Synced /\ Live(windows') = Live(windows) /\ windows'.next_id = windows.next_id
BY DEF NoFocusChange, ModelInv, KeyInv, Synced, SelectionFollowsKeyboard

\* A place on the screen divides among n tiles.
LEMMA TileIndex ==
  ASSUME NEW x \in 0..(Columns - 1), NEW n \in Nat \ {0}
  PROVE  (x * n) \div Columns + 1 \in 1..n
<1>1. Columns \in Nat \ {0} /\ x \in Nat /\ x <= Columns - 1
  BY ShapeAssumption
<1> DEFINE q == (x * n) \div Columns
<1>2. x * n \in Nat
  BY <1>1
<1>3. q \in Nat /\ q * Columns <= x * n
  BY <1>1, <1>2
<1>4. x * n < Columns * n
  BY <1>1
<1>5. q < n
  <2> SUFFICES ASSUME q >= n PROVE FALSE
    BY <1>3
  <2>1. q * Columns >= n * Columns
    BY <1>1, <1>3
  <2> QED BY <1>1, <1>2, <1>3, <1>4, <2>1
<1> QED BY <1>3, <1>5

LEMMA HitIsLive ==
  ASSUME ModelInv, NEW p, p.x \in 0..(Columns - 1)
  PROVE  LET hit == HitAt(p) IN
         /\ hit.part \in {"window", "chip", "shell"}
         /\ hit.part = "window" => hit.window \in Live(windows)
         /\ hit.part = "chip" => Bar(windows, Screen)[hit.chip] \in Live(windows)
         /\ PointerFocus(p) \in MaybeLive(windows)
<1> DEFINE tiled == Tiled(windows, Screen)
<1> DEFINE bar == Bar(windows, Screen)
<1> DEFINE i == (p.x * Len(tiled)) \div Columns + 1
<1>1. /\ tiled \in Seq(Nat) /\ bar \in Seq(Nat)
      /\ Elements(tiled) \subseteq Live(windows) /\ Elements(bar) \subseteq Live(windows)
  BY PlacedAreLive DEF ModelInv
<1> HIDE DEF tiled, bar
<1>2. p.x < Len(bar) => bar[p.x + 1] \in Live(windows)
  BY <1>1, ShapeAssumption DEF Elements
<1>3. tiled # << >> => tiled[i] \in Live(windows)
  <2> SUFFICES ASSUME tiled # << >> PROVE tiled[i] \in Live(windows)
    OBVIOUS
  <2>1. Len(tiled) \in Nat \ {0}
    BY <1>1
  <2>2. i \in 1..Len(tiled)
    BY <2>1, TileIndex
  <2> HIDE DEF i
  <2> QED BY <1>1, <2>2 DEF Elements
<1> HIDE DEF i
<1>4. \/ HitAt(p) = OnChip(p.x + 1) /\ p.x < Len(bar)
      \/ HitAt(p) = OnShell
      \/ HitAt(p) = OnWindow(tiled[i]) /\ tiled # << >>
  BY Zenon DEF HitAt, tiled, bar, i
<1> QED BY <1>2, <1>3, <1>4 DEF OnChip, OnShell, OnWindow, PointerFocus, MaybeLive, bar

LEMMA PressAtKeeps ==
  ASSUME ModelInv, KeyInv, NEW p, p.x \in 0..(Columns - 1), PressAt(p)
  PROVE  Synced /\ Live(windows') = Live(windows) /\ windows'.next_id = windows.next_id
<1> DEFINE hit == HitAt(p)
<1>1. Good(windows)
  BY DEF ModelInv
<1>2. CASE hit.part = "window" /\ windows.focus # hit.window
  <2>1. hit.window \in MaybeLive(windows)
    BY <1>2, HitIsLive DEF MaybeLive
  <2>2. FocusChanged(Focus(windows, hit.window))
    BY <1>2, Zenon DEF PressAt
  <2> QED BY <1>1, <2>1, <2>2, MethodsLayOut, FocusChangedKeeps
<1>3. CASE hit.part = "chip"
  <2>1. Bar(windows, Screen)[hit.chip] \in Live(windows)
    BY <1>3, HitIsLive
  <2>2. FocusChanged(Activate(windows, Bar(windows, Screen)[hit.chip]))
    BY <1>3 DEF PressAt
  <2> QED BY <1>1, <2>1, <2>2, MethodsLayOut, FocusChangedKeeps
<1>4. CASE ~(hit.part = "window" /\ windows.focus # hit.window) /\ hit.part # "chip"
  <2>1. NoFocusChange
    BY <1>4, Zenon DEF PressAt
  <2> QED BY <2>1, NoFocusChangeKeeps
<1> QED BY <1>2, <1>3, <1>4

LEMMA RunActionKeeps ==
  ASSUME ModelInv, KeyInv, NEW action, RunAction(action)
  PROVE  Synced /\ Live(windows') = Live(windows) /\ windows'.next_id = windows.next_id
<1>1. Good(windows) /\ LaidOut(windows, windows)
  BY DEF ModelInv, LaidOut, Rearranged
<1>2. LaidOut(windows, CycleFocus(windows, Screen, action = "focus_next_window"))
  <2>1. (action = "focus_next_window") \in BOOLEAN
    OBVIOUS
  <2> QED BY <1>1, <2>1, MethodsLayOut
<1> QED BY <1>1, <1>2, FocusChangedKeeps, NoFocusChangeKeeps DEF RunAction

----------------------------------------------------------------------------
(* What stays as it is while the windows change                            *)

\* Only windows that are there are told of anything.
LEMMA SentToLive ==
  ASSUME NEW m, Good(m), NEW w \in MaybeLive(m), NEW what, NEW origin,
         NEW s \in Sent(what, w, origin)
  PROVE  s.to \in Live(m) /\ s.to = w /\ s.origin = origin
<1>1. NoWindow \notin Live(m)
  BY PlacedAreLive
<1> QED BY <1>1 DEF Sent, MaybeLive

LEMMA KeysStay ==
  ASSUME KeyInv, Synced, UNCHANGED <<held, forwarded>>
  PROVE  KeyInv'
BY DEF KeyInv, Synced

LEMMA PointerStays ==
  ASSUME PointerInv, UNCHANGED <<location, pointer, lock>>, Live(windows) \subseteq Live(windows')
  PROVE  PointerInv'
BY DEF PointerInv, LockIsUnderThePointer, MaybeLive

LEMMA TouchStays ==
  ASSUME TouchInv, UNCHANGED touchVars, Live(windows') = Live(windows),
         windows'.next_id = windows.next_id
  PROVE  TouchInv'
BY DEF TouchInv, touchVars, MaybeLive

\* The devices of which a step takes no notice, while no window comes or goes.
LEMMA ModelStays ==
  ASSUME ModelInv, UNCHANGED <<windows, owner, shape>>
  PROVE  ModelInv' /\ Live(windows') = Live(windows) /\ windows'.next_id = windows.next_id
BY DEF ModelInv

LEMMA KeyboardStays ==
  ASSUME KeyInv, UNCHANGED <<windows, owner, keyVars>>
  PROVE  KeyInv'
BY DEF KeyInv, keyVars, SelectionFollowsKeyboard, MaybeLive

\* A motion, while a button is down or not, leaves the lock with the window
\* that keeps the pointer.
LEMMA PointToKeeps ==
  ASSUME PointerInv, UNCHANGED windows, location'.x \in 0..(Columns - 1),
         NEW w \in MaybeLive(windows), PointTo(w)
  PROVE  PointerInv'
<1> DEFINE focus == IF pointer.buttons > 0 THEN pointer.focus ELSE w
<1>1. /\ pointer' = [pointer EXCEPT !.focus = focus, !.pending = w]
      /\ lock' = IF lock = focus THEN lock ELSE NoWindow
  BY DEF PointTo
<1>2. focus \in MaybeLive(windows)
  BY DEF PointerInv
<1> HIDE DEF focus
<1>3. pointer' = [focus |-> focus, pending |-> w, buttons |-> pointer.buttons]
  BY <1>1 DEF PointerInv
<1> QED BY <1>1, <1>2, <1>3 DEF PointerInv, LockIsUnderThePointer, MaybeLive

----------------------------------------------------------------------------
(* The invariant, action by action                                         *)

LEMMA InitInv == Init => Inv
<1> SUFFICES ASSUME Init PROVE Inv
  OBVIOUS
<1>1. Good(EmptyModel) /\ Live(EmptyModel) = {} /\ AllToplevels(EmptyModel)
  BY EmptyIsGood DEF AllToplevels, Live, EmptyModel
<1>2. shape.limit \in Nat /\ shape \in Shapes
  BY ShapeAssumption DEF Init
<1>3. LaidOut(EmptyModel, windows)
  BY <1>1, <1>2, MethodsLayOut, Zenon DEF Init
<1>4. Good(windows) /\ AllToplevels(windows) /\ Live(windows) = {}
  BY <1>1, <1>3, LaidOutLive DEF LaidOut, Rearranged
<1>5. ModelInv
  BY <1>2, <1>4 DEF ModelInv, Init
<1>6. KeyInv
  BY <1>4 DEF KeyInv, SelectionFollowsKeyboard, MaybeLive, Init
<1>7. PointerInv
  BY ShapeAssumption DEF PointerInv, LockIsUnderThePointer, MaybeLive, Init
<1>8. TouchInv
  BY DEF TouchInv, Init
<1>9. SentInv
  BY DEF SentInv, Init
<1> QED BY <1>5, <1>6, <1>7, <1>8, <1>9 DEF Inv

LEMMA KeyDownInv == ASSUME Inv, NEW k \in Keys, KeyDown(k) PROVE Inv'
<1>1. ModelInv /\ KeyInv /\ PointerInv /\ TouchInv /\ Good(windows)
  BY DEF Inv, ModelInv
<1>2. /\ held' = held \cup {k} /\ UNCHANGED <<location, pointer, lock, touchVars>>
  BY DEF KeyDown, pointerVars
<1>3. CASE /\ \E action \in Shortcut(k, Mods(held')) : RunAction(action)
           /\ sent' = {} /\ UNCHANGED forwarded
  <2>1. Synced /\ Live(windows') = Live(windows) /\ windows'.next_id = windows.next_id
    BY <1>1, <1>3, RunActionKeeps, Zenon
  <2>2. KeyInv'
    BY <1>1, <1>2, <1>3, <2>1 DEF KeyInv, Synced
  <2> QED BY <1>1, <1>2, <1>3, <2>1, <2>2, PointerStays, TouchStays DEF Inv, Synced, SentInv
<1>4. CASE /\ forwarded' = forwarded \cup {k}
           /\ told' = IF keyboard = NoWindow THEN {} ELSE told \cup {k}
           /\ sent' = Sent("key", keyboard, keyboard)
           /\ UNCHANGED <<windows, owner, shape, keyboard, selection>>
  <2>1. ModelInv' /\ Live(windows') = Live(windows) /\ windows'.next_id = windows.next_id
    BY <1>1, <1>4, ModelStays
  <2>2. KeyInv'
    BY <1>1, <1>2, <1>4 DEF KeyInv, SelectionFollowsKeyboard, MaybeLive
  <2>3. SentInv'
    BY <1>1, <1>4, SentToLive DEF SentInv, KeyInv
  <2> QED BY <1>1, <1>2, <2>1, <2>2, <2>3, PointerStays, TouchStays DEF Inv
<1> QED BY <1>3, <1>4 DEF KeyDown

LEMMA KeyUpInv == ASSUME Inv, NEW k \in Keys, KeyUp(k) PROVE Inv'
<1>1. ModelInv /\ KeyInv /\ PointerInv /\ TouchInv /\ Good(windows)
  BY DEF Inv, ModelInv
<1>2. /\ UNCHANGED <<windows, owner, shape>>
      /\ UNCHANGED <<location, pointer, lock, touchVars>>
  BY DEF KeyUp, pointerVars
<1>3. ModelInv' /\ Live(windows') = Live(windows) /\ windows'.next_id = windows.next_id
  BY <1>1, <1>2, ModelStays
<1>4. KeyInv'
  BY <1>1 DEF KeyInv, KeyUp, SelectionFollowsKeyboard, MaybeLive
<1>5. SentInv'
  BY <1>1, <1>2, SentToLive DEF SentInv, KeyInv, KeyUp
<1> QED BY <1>1, <1>2, <1>3, <1>4, <1>5, PointerStays, TouchStays DEF Inv

\* The pointer's and the constraints' steps leave every window where it is.
LEMMA PointerStepInv ==
  ASSUME Inv, UNCHANGED <<windows, owner, shape, keyVars, touchVars>>, PointerInv', SentInv'
  PROVE  Inv'
<1>1. ModelInv /\ KeyInv /\ TouchInv
  BY DEF Inv
<1>2. ModelInv' /\ Live(windows') = Live(windows) /\ windows'.next_id = windows.next_id
  BY <1>1, ModelStays
<1> QED BY <1>1, <1>2, KeyboardStays, TouchStays DEF Inv

LEMMA PointerMotionInv == ASSUME Inv, NEW p \in Places, PointerMotion(p) PROVE Inv'
<1>1. ModelInv /\ PointerInv /\ Good(windows)
  BY DEF Inv, ModelInv
<1>2. location'.x \in 0..(Columns - 1)
  BY <1>1 DEF PointerMotion, Moved, Places, PointerInv
<1>3. /\ UNCHANGED <<windows, owner, shape, keyVars, touchVars>>
      /\ PointTo(PointerFocus(location'))
      /\ sent' = Sent("motion", pointer'.focus, pointer'.focus)
  BY DEF PointerMotion
<1>4. PointerFocus(location') \in MaybeLive(windows)
  BY <1>1, <1>2, HitIsLive
<1>5. PointerInv'
  BY <1>1, <1>2, <1>3, <1>4, PointToKeeps
<1>6. SentInv'
  <2>1. pointer'.focus \in MaybeLive(windows)
    BY <1>3, <1>5 DEF PointerInv
  <2> QED BY <1>1, <1>3, <2>1, SentToLive DEF SentInv
<1> QED BY <1>3, <1>5, <1>6, PointerStepInv

LEMMA ButtonDownInv == ASSUME Inv, ButtonDown PROVE Inv'
<1>1. ModelInv /\ KeyInv /\ PointerInv /\ TouchInv /\ Good(windows)
  BY DEF Inv, ModelInv
<1>2. /\ PressAt(location) /\ pointer' = [pointer EXCEPT !.buttons = @ + 1]
      /\ sent' = Sent("button", pointer.focus, pointer.focus)
      /\ UNCHANGED <<held, forwarded, location, lock, touchVars>>
  BY DEF ButtonDown
<1>3. Synced /\ Live(windows') = Live(windows) /\ windows'.next_id = windows.next_id
  BY <1>1, <1>2, PressAtKeeps DEF PointerInv
<1>4. PointerInv'
  <2>1. pointer' = [focus |-> pointer.focus, pending |-> pointer.pending,
                    buttons |-> pointer.buttons + 1]
    BY <1>1, <1>2 DEF PointerInv
  <2> QED BY <1>1, <1>2, <1>3, <2>1 DEF PointerInv, LockIsUnderThePointer, MaybeLive
<1>5. SentInv'
  <2>1. pointer.focus \in MaybeLive(windows)
    BY <1>1 DEF PointerInv
  <2> QED BY <1>1, <1>2, <1>3, <2>1, SentToLive DEF SentInv
<1> QED BY <1>1, <1>2, <1>3, <1>4, <1>5, KeysStay, TouchStays DEF Inv, Synced

LEMMA ButtonUpInv == ASSUME Inv, ButtonUp PROVE Inv'
<1> DEFINE focus == IF pointer.buttons = 1 THEN pointer.pending ELSE pointer.focus
<1>1. PointerInv /\ Good(windows)
  BY DEF Inv, ModelInv
<1>2. /\ pointer' = [pointer EXCEPT !.buttons = @ - 1,
                                    !.focus = IF pointer.buttons = 1 THEN pointer.pending ELSE @]
      /\ lock' = IF lock = pointer'.focus THEN lock ELSE NoWindow
      /\ sent' = Sent("button", pointer.focus, pointer.focus)
      /\ UNCHANGED <<windows, owner, shape, keyVars, location, touchVars>>
  BY DEF ButtonUp
<1>3. pointer' = [focus |-> focus, pending |-> pointer.pending, buttons |-> pointer.buttons - 1]
  BY <1>1, <1>2 DEF PointerInv
<1>4. focus \in MaybeLive(windows) /\ pointer.focus \in MaybeLive(windows)
  BY <1>1 DEF PointerInv
<1> HIDE DEF focus
<1>5. PointerInv'
  BY <1>1, <1>2, <1>3, <1>4 DEF PointerInv, LockIsUnderThePointer, MaybeLive
<1>6. SentInv'
  BY <1>1, <1>2, <1>4, SentToLive DEF SentInv
<1> QED BY <1>2, <1>5, <1>6, PointerStepInv

LEMMA PointerAxisInv == ASSUME Inv, PointerAxis PROVE Inv'
<1>1. PointerInv /\ Good(windows) /\ pointer.focus \in MaybeLive(windows)
  BY DEF Inv, ModelInv, PointerInv
<1>2. /\ UNCHANGED <<windows, owner, shape, keyVars, pointerVars, touchVars>>
      /\ sent' = Sent("axis", pointer.focus, pointer.focus)
  BY DEF PointerAxis
<1>3. PointerInv'
  BY <1>1, <1>2, PointerStays DEF pointerVars
<1>4. SentInv'
  BY <1>1, <1>2, SentToLive DEF SentInv
<1> QED BY <1>2, <1>3, <1>4, PointerStepInv

\* A constraint is granted to the window that has the pointer, and to no other.
LEMMA ConstraintInv ==
  ASSUME Inv, EndConstraint \/ \E w \in Live(windows), kind \in {"lock", "confine"} :
                                 NewConstraint(w, kind)
  PROVE  Inv'
<1>1. PointerInv
  BY DEF Inv
<1>2. /\ UNCHANGED <<windows, owner, shape, keyVars, location, pointer, touchVars>>
      /\ sent' = {}
      /\ lock' = NoWindow \/ lock' = pointer.focus
  BY DEF EndConstraint, NewConstraint, Grants, Quiet
<1>3. PointerInv'
  BY <1>1, <1>2 DEF PointerInv, LockIsUnderThePointer, MaybeLive
<1>4. SentInv'
  BY <1>2 DEF SentInv
<1> QED BY <1>2, <1>3, <1>4, PointerStepInv

LEMMA PointerNextInv == ASSUME Inv, PointerNext PROVE Inv'
BY PointerMotionInv, ButtonDownInv, ButtonUpInv, PointerAxisInv, ConstraintInv DEF PointerNext

----------------------------------------------------------------------------
(* The fingers                                                             *)

LEMMA TouchDownInv == ASSUME Inv, NEW f, NEW p \in Places, TouchDown(f, p) PROVE Inv'
<1> DEFINE hit == HitAt(p)
<1> DEFINE w == IF hit.part = "window" THEN hit.window ELSE NoWindow
<1> DEFINE on == IF w \in Placed(windows', Screen) THEN w ELSE NoWindow
<1>1. ModelInv /\ KeyInv /\ PointerInv /\ TouchInv /\ p.x \in 0..(Columns - 1)
  BY DEF Inv, Places
<1>2. /\ f \notin DOMAIN fingers /\ PressAt(p)
      /\ touch_focus' = IF w \in Placed(windows', Screen) THEN <<w, f>> ELSE touch_focus
      /\ fingers' = Put(fingers, f, on)
      /\ sent' = Sent("touch", fingers'[f], w)
      /\ UNCHANGED <<held, forwarded, pointerVars>>
  BY DEF TouchDown
<1>3. Synced /\ Live(windows') = Live(windows) /\ windows'.next_id = windows.next_id
  BY <1>1, <1>2, PressAtKeeps
<1>4. Good(windows') /\ HandlesOK(windows') /\ Live(windows') \subseteq Nat
      /\ Placed(windows', Screen) \subseteq Live(windows') /\ NoWindow \notin Live(windows')
  BY <1>3, PlacedAreLive, ModelParts DEF Synced, ModelInv, Good
<1> HIDE DEF w
<1>5. on \in MaybeLive(windows') /\ (on # NoWindow => on = w)
  BY <1>4 DEF MaybeLive
<1>6. /\ DOMAIN fingers' = DOMAIN fingers \cup {f} /\ fingers'[f] = on
      /\ \A g \in DOMAIN fingers : fingers'[g] = fingers[g]
  BY <1>2 DEF Put
<1>7. TouchInv'
  <2>1. \A g \in DOMAIN fingers' : fingers'[g] \in MaybeLive(windows')
    BY <1>1, <1>3, <1>5, <1>6 DEF TouchInv, MaybeLive
  <2>2. CASE w \in Placed(windows', Screen)
    <3>1. touch_focus' = <<w, f>> /\ w \in Nat /\ w < windows'.next_id /\ fingers'[f] = w
      BY <1>2, <1>4, <1>6, <2>2 DEF HandlesOK
    <3> QED BY <1>6, <2>1, <3>1 DEF TouchInv
  <2>3. CASE w \notin Placed(windows', Screen)
    <3>1. touch_focus' = touch_focus
      BY <1>2, <2>3
    <3> QED BY <1>1, <1>3, <1>6, <2>1, <3>1 DEF TouchInv
  <2> QED BY <2>2, <2>3
<1>8. SentInv'
  <2>1. \A s \in sent' : s.to \in Live(windows') /\ s.to = on /\ s.origin = w
    BY <1>2, <1>4, <1>5, <1>6, SentToLive
  <2> QED BY <1>4, <1>5, <2>1 DEF SentInv
<1>9. KeyInv' /\ PointerInv'
  BY <1>1, <1>2, <1>3, KeysStay, PointerStays DEF pointerVars
<1> QED BY <1>3, <1>7, <1>8, <1>9 DEF Inv, Synced

\* The steps of fingers that are down leave the windows where they are.
LEMMA TouchStepInv ==
  ASSUME Inv, UNCHANGED <<windows, owner, shape, keyVars, pointerVars>>, TouchInv', SentInv'
  PROVE  Inv'
<1>1. ModelInv /\ KeyInv /\ PointerInv
  BY DEF Inv
<1>2. ModelInv' /\ Live(windows') = Live(windows)
  BY <1>1, ModelStays
<1> QED BY <1>1, <1>2, KeyboardStays, PointerStays DEF Inv, pointerVars

LEMMA TouchMotionInv == ASSUME Inv, NEW f, TouchMotion(f) PROVE Inv'
<1>1. TouchInv /\ Good(windows)
  BY DEF Inv, ModelInv
<1>2. /\ f \in DOMAIN fingers
      /\ sent' = IF Follows(f) THEN Sent("touch", fingers[f], touch_focus[1]) ELSE {}
      /\ UNCHANGED <<windows, owner, shape, keyVars, pointerVars, touchVars>>
  BY DEF TouchMotion
<1>3. TouchInv'
  BY <1>1, <1>2 DEF TouchInv, touchVars, MaybeLive
<1>4. SentInv'
  <2>1. Follows(f) => fingers[f] = touch_focus[1]
    BY <1>1, PlacedAreLive DEF Follows, TouchInv
  <2>2. fingers[f] \in MaybeLive(windows)
    BY <1>1, <1>2 DEF TouchInv
  <2> QED BY <1>1, <1>2, <2>1, <2>2, SentToLive DEF SentInv
<1> QED BY <1>2, <1>3, <1>4, TouchStepInv

LEMMA TouchUpInv == ASSUME Inv, NEW f, TouchUp(f) PROVE Inv'
<1>1. TouchInv /\ Good(windows)
  BY DEF Inv, ModelInv
<1>2. /\ f \in DOMAIN fingers
      /\ touch_focus' = IF touch_focus # << >> /\ touch_focus[2] = f THEN << >> ELSE touch_focus
      /\ fingers' = [g \in DOMAIN fingers \ {f} |-> fingers[g]]
      /\ sent' = Sent("touch", fingers[f], fingers[f])
      /\ UNCHANGED <<windows, owner, shape, keyVars, pointerVars>>
  BY DEF TouchUp
<1>3. TouchInv'
  BY <1>1, <1>2 DEF TouchInv, MaybeLive
<1>4. SentInv'
  <2>1. fingers[f] \in MaybeLive(windows)
    BY <1>1, <1>2 DEF TouchInv
  <2> QED BY <1>1, <1>2, <2>1, SentToLive DEF SentInv
<1> QED BY <1>2, <1>3, <1>4, TouchStepInv

LEMMA TouchCancelInv == ASSUME Inv, TouchCancel PROVE Inv'
<1>1. TouchInv /\ Good(windows)
  BY DEF Inv, ModelInv
<1>2. /\ touch_focus' = << >> /\ fingers' = << >>
      /\ sent' = UNION {Sent("touch", fingers[f], fingers[f]) : f \in DOMAIN fingers}
      /\ UNCHANGED <<windows, owner, shape, keyVars, pointerVars>>
  BY DEF TouchCancel
<1>3. TouchInv'
  BY <1>2 DEF TouchInv
<1>4. SentInv'
  <2> SUFFICES ASSUME NEW s \in sent' PROVE s.to \in Live(windows) /\ s.origin = s.to
    BY <1>2 DEF SentInv
  <2>1. PICK f \in DOMAIN fingers : s \in Sent("touch", fingers[f], fingers[f])
    BY <1>2
  <2>2. fingers[f] \in MaybeLive(windows)
    BY <1>1 DEF TouchInv
  <2> QED BY <1>1, <2>1, <2>2, SentToLive
<1> QED BY <1>2, <1>3, <1>4, TouchStepInv

LEMMA TouchNextInv == ASSUME Inv, TouchNext PROVE Inv'
BY TouchDownInv, TouchMotionInv, TouchUpInv, TouchCancelInv DEF TouchNext

----------------------------------------------------------------------------
(* The clients and the host                                                *)

LEMMA NewToplevelInv == ASSUME Inv, NewToplevel PROVE Inv'
<1> DEFINE id == windows.next_id
<1>1. ModelInv /\ KeyInv /\ PointerInv /\ TouchInv
  BY DEF Inv
<1>2. /\ windows' = OpenToplevel(windows, Screen) /\ \E c \in Clients : owner' = Put(owner, id, c)
      /\ sent' = {} /\ UNCHANGED <<shape, keyVars, pointerVars, touchVars>>
  BY DEF NewToplevel, Quiet
<1>3. /\ Good(windows') /\ AllToplevels(windows') /\ Live(windows') = Live(windows) \cup {id}
      /\ windows'.next_id = id + 1 /\ id \in Nat /\ id \notin Live(windows)
  BY <1>1, <1>2, NewWindowAdds DEF ModelInv
<1> HIDE DEF id
<1>4. DOMAIN owner' = DOMAIN owner \cup {id} /\ \A w \in DOMAIN owner \ {id} : owner'[w] = owner[w]
  BY <1>2 DEF Put
<1>5. ModelInv'
  BY <1>1, <1>2, <1>3, <1>4 DEF ModelInv
<1>6. KeyInv'
  BY <1>1, <1>2, <1>3, <1>4 DEF KeyInv, keyVars, ModelInv, SelectionFollowsKeyboard, MaybeLive
<1>7. PointerInv'
  BY <1>1, <1>2, <1>3, PointerStays DEF pointerVars
<1>8. TouchInv'
  BY <1>1, <1>2, <1>3 DEF TouchInv, touchVars, MaybeLive, id
<1> QED BY <1>2, <1>5, <1>6, <1>7, <1>8 DEF Inv, SentInv

\* A commit and a resize synchronise the layout and nothing else.
LEMMA LayoutStepInv ==
  ASSUME Inv, Commit \/ Resized PROVE Inv'
<1>1. ModelInv /\ KeyInv /\ PointerInv /\ TouchInv /\ Good(windows) /\ AllToplevels(windows)
  BY DEF Inv, ModelInv
<1>2. /\ shape' \in Shapes /\ owner' = owner /\ SyncLayout(windows)
      /\ sent' = {} /\ UNCHANGED <<held, forwarded, pointerVars, touchVars>>
  BY <1>1 DEF Commit, Resized, FocusChanged, Quiet, ModelInv
<1>3. Synced /\ Live(windows') = Live(windows) /\ windows'.next_id = windows.next_id
  BY <1>1, <1>2, SyncLayoutKeeps DEF ModelInv
<1>4. KeyInv' /\ PointerInv' /\ TouchInv'
  BY <1>1, <1>2, <1>3, KeysStay, PointerStays, TouchStays DEF pointerVars
<1> QED BY <1>2, <1>3, <1>4 DEF Inv, Synced, SentInv

\* Whatever held on to the window lets go of it, but for State.touch_focus.
LEMMA DestroyInv == ASSUME Inv, NEW w \in Live(windows), Destroy(w) PROVE Inv'
<1> DEFINE still(v) == IF v = w THEN NoWindow ELSE v
<1>1. ModelInv /\ KeyInv /\ PointerInv /\ TouchInv /\ Good(windows) /\ AllToplevels(windows)
  BY DEF Inv, ModelInv
<1> DEFINE m == Close(windows, w)
<1>2. /\ owner' = [v \in DOMAIN owner \ {w} |-> owner[v]] /\ shape' = shape /\ SyncLayout(m)
      /\ pointer' = [pointer EXCEPT !.focus = still(@), !.pending = still(@)]
      /\ lock' = still(lock)
      /\ fingers' = [f \in DOMAIN fingers |-> still(fingers[f])]
      /\ sent' = {} /\ UNCHANGED <<held, forwarded, location, touch_focus>>
  BY DEF Destroy, Quiet
<1>3. /\ Good(m) /\ AllToplevels(m) /\ Live(m) = Live(windows) \ {w}
      /\ m.next_id = windows.next_id
  BY <1>1, WindowGoes
<1> HIDE DEF m
<1>4. DOMAIN owner' = Live(m) /\ (\A v \in Live(m) : owner'[v] = owner[v]) /\ shape' \in Shapes
  BY <1>1, <1>2, <1>3 DEF ModelInv
<1>5. Synced /\ Live(windows') = Live(m) /\ windows'.next_id = m.next_id
  BY <1>1, <1>2, <1>3, <1>4, SyncLayoutKeeps
<1>6. KeyInv'
  BY <1>1, <1>2, <1>5, KeysStay
<1>7. PointerInv'
  <2>1. pointer' = [focus |-> still(pointer.focus), pending |-> still(pointer.pending),
                    buttons |-> pointer.buttons]
    BY <1>1, <1>2 DEF PointerInv
  <2>2. /\ {lock, pointer.focus, pointer.pending} \subseteq MaybeLive(windows)
        /\ LockIsUnderThePointer /\ location.x \in 0..Columns - 1
    BY <1>1 DEF PointerInv
  <2>3. \A v \in MaybeLive(windows) : still(v) \in MaybeLive(windows')
    BY <1>3, <1>5 DEF MaybeLive
  <2>4. {lock', pointer'.focus, pointer'.pending} \subseteq MaybeLive(windows')
    BY <1>2, <2>1, <2>2, <2>3
  <2>5. LockIsUnderThePointer'
    BY <1>2, <2>1, <2>2 DEF LockIsUnderThePointer
  <2>6. pointer' = [focus |-> pointer'.focus, pending |-> pointer'.pending,
                    buttons |-> pointer'.buttons]
    BY <2>1
  <2> QED BY <1>2, <2>2, <2>4, <2>5, <2>6 DEF PointerInv
<1>8. TouchInv'
  <2>1. \A f \in DOMAIN fingers' : fingers'[f] \in MaybeLive(windows')
    BY <1>1, <1>2, <1>3, <1>5 DEF TouchInv, MaybeLive
  <2>2. touch_focus # << >> /\ touch_focus[1] \in Live(windows') =>
          fingers'[touch_focus[2]] = touch_focus[1]
    BY <1>1, <1>2, <1>3, <1>5 DEF TouchInv
  <2> QED BY <1>1, <1>2, <1>3, <1>5, <2>1, <2>2 DEF TouchInv
<1> QED BY <1>2, <1>5, <1>6, <1>7, <1>8 DEF Inv, Synced, SentInv

LEMMA StutterInv == ASSUME Inv, UNCHANGED vars PROVE Inv'
<1>1. UNCHANGED <<windows, owner, shape, keyVars, pointerVars, touchVars, sent>>
  BY DEF vars
<1>2. ModelInv /\ KeyInv /\ PointerInv /\ TouchInv /\ SentInv
  BY DEF Inv
<1>3. ModelInv' /\ Live(windows') = Live(windows) /\ windows'.next_id = windows.next_id
  BY <1>1, <1>2, ModelStays
<1>4. KeyInv' /\ PointerInv' /\ TouchInv'
  BY <1>1, <1>2, <1>3, KeyboardStays, PointerStays, TouchStays DEF pointerVars
<1> QED BY <1>1, <1>2, <1>3, <1>4 DEF Inv, SentInv

LEMMA NextInv == Inv /\ [Next]_vars => Inv'
<1> SUFFICES ASSUME Inv, [Next]_vars PROVE Inv'
  OBVIOUS
<1>1. CASE KeyboardNext
  BY <1>1, KeyDownInv, KeyUpInv DEF KeyboardNext
<1>2. CASE PointerNext
  BY <1>2, PointerNextInv
<1>3. CASE TouchNext
  BY <1>3, TouchNextInv
<1>4. CASE NewToplevel
  BY <1>4, NewToplevelInv
<1>5. CASE Commit \/ Resized
  BY <1>5, LayoutStepInv
<1>6. CASE \E w \in Live(windows) : Destroy(w)
  BY <1>6, DestroyInv
<1>7. CASE UNCHANGED vars
  BY <1>7, StutterInv
<1> QED BY <1>1, <1>2, <1>3, <1>4, <1>5, <1>6, <1>7 DEF Next

THEOREM SpecInv == Spec => []Inv
BY InitInv, NextInv, PTL DEF Spec

----------------------------------------------------------------------------
(* What follows                                                            *)

\* input.rs and handlers.rs, whatever clients and devices do: every device is
\* with a live window or with none, and clients are told of windows that are
\* there.
THEOREM TypeCorrect == Spec => []TypeOK
<1>1. Inv => TypeOK
  BY DEF Inv, ModelInv, KeyInv, PointerInv, TouchInv, SentInv, TypeOK, MaybeLive, Good
<1> QED BY <1>1, SpecInv, PTL

\* handlers.rs:139-144: no application in the background holds the pointer.
THEOREM NobodyElseHasTheLock == Spec => []LockIsUnderThePointer
<1>1. Inv => LockIsUnderThePointer
  BY DEF Inv, PointerInv
<1> QED BY <1>1, SpecInv, PTL

\* input.rs:315-331: the clipboard is readable by the client with the keyboard
\* and by no other, through every change of focus, of layout and of clients.
THEOREM ClipboardIsTheKeyboards == Spec => []SelectionFollowsKeyboard
<1>1. Inv => SelectionFollowsKeyboard
  BY DEF Inv, KeyInv
<1> QED BY <1>1, SpecInv, PTL

\* input.rs:619-628: a point is reported in the coordinates of the window its
\* finger is on, however many fingers there are and whatever closes under them.
THEOREM TouchesStayAtHome == Spec => []TouchPointsAreInTheirOwnWindow
<1>1. Inv => TouchPointsAreInTheirOwnWindow
  BY DEF Inv, SentInv, TouchPointsAreInTheirOwnWindow
<1> QED BY <1>1, SpecInv, PTL

\* input.rs:340-347: the one step that moves the pointer asks for the lock, and
\* the lock it finds is that of the window the pointer is on.
THEOREM LockedPointerStays == Spec => LockedPointerStandsStill
<1> DEFINE A == lock # NoWindow /\ lock' = lock => location' = location
<1>1. Inv /\ [Next]_vars => [A]_vars
  <2> SUFFICES ASSUME Inv, Next, lock # NoWindow PROVE location' = location
    OBVIOUS
  <2>1. CASE \E p \in Places : PointerMotion(p)
    BY <2>1 DEF PointerMotion, Moved, PointerLocked, Inv, PointerInv, LockIsUnderThePointer
  <2>2. CASE ~\E p \in Places : PointerMotion(p)
    BY <2>2 DEF Next, KeyboardNext, KeyDown, KeyUp, PointerNext, ButtonDown, ButtonUp,
                PointerAxis, NewConstraint, EndConstraint, TouchNext, TouchDown, TouchMotion,
                TouchUp, TouchCancel, NewToplevel, Commit, Resized, Destroy, pointerVars
  <2> QED BY <2>1, <2>2
<1> QED BY <1>1, SpecInv, PTL DEF Spec, LockedPointerStandsStill

\* handlers.rs:139-144 and input.rs:340-347 together: the lock is with the
\* window under the pointer, and the pointer stands still for as long.
THEOREM LockIsKept == Spec => LockHolds
<1>1. Spec => []LockIsUnderThePointer
  BY NobodyElseHasTheLock
<1>2. Spec => LockedPointerStandsStill
  BY LockedPointerStays
<1> HIDE DEF Spec
<1> QED BY <1>1, <1>2 DEF LockHolds
=============================================================================
