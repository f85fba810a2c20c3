------------------------------- MODULE MCSeat --------------------------------
(***************************************************************************)
(* Seat for TLC: a screen of two or three rows and room for one tile or    *)
(* two, and one device at a time, since no device reads another's state.   *)
(***************************************************************************)
EXTENDS Seat, TLC

TallAndShort == {[rows |-> 3, limit |-> 2], [rows |-> 2, limit |-> 1]}

ClientSymmetry == Permutations(Clients)

SomeKeys   == {"logo", "ctrl", "shift", "tab", "f"}
TwoFingers == {1, 2}

\* Which client a window is of matters to the keyboard alone, and to that the
\* size of the screen does not.
OneClient == \A v, w \in DOMAIN owner : owner[v] = owner[w]

NoPointer == /\ device = [x |-> 0, y |-> 0] /\ location = device
             /\ {pointer.focus, pointer.pending} = {NoWindow} /\ pointer.buttons = 0
NoTouch   == fingers = << >> /\ touch_focus = << >>

\* Two windows are enough for a pointer to leave one of them.
OneDevice == \/ NoPointer /\ NoTouch /\ shape.limit = 2
             \/ held = {} /\ NoTouch /\ OneClient /\ windows.next_id <= 2
             \/ held = {} /\ NoPointer /\ OneClient

SeatNext == Next /\ OneDevice'
SeatSpec == Init /\ [][SeatNext]_vars
=============================================================================
