---------------------------- MODULE WindowModel -----------------------------
(***************************************************************************)
(* The window model on its own: every method of gostui-core's WindowModel  *)
(* as an action, called in any order on any window and any output.         *)
(***************************************************************************)
EXTENDS WindowOps

CONSTANTS MaxWindows,  \* bound of the model: how many handles are given out
          MaxCapacity  \* the most tiles an output is ever given

ASSUME BoundsAssumption == MaxWindows \in Nat /\ MaxCapacity \in Nat

VARIABLE model

vars == <<model>>

----------------------------------------------------------------------------
(* The behaviours: any call, on any window or output                       *)

Init == model = EmptyModel

Resize == \E o \in Outputs, c \in 0..MaxCapacity : model' = SetCapacity(model, o, c)

MayOpen == model.next_id < MaxWindows

OpenWindow == MayOpen /\ \E o \in Outputs : model' = OpenToplevel(model, o)

OpenDialogOrPopup ==
  MayOpen /\ \E w \in Live(model), r \in {"dialog", "popup"} :
               model' = OpenChild(model, w, r)

Adopt == \E w, p \in Live(model) :
           CanAdopt(model, w, p) /\ model' = AdoptAsDialog(model, w, p)

CloseWindow == \E w \in Live(model) : model' = Close(model, w)

ActivateWindow == \E w \in Live(model) : model' = Activate(model, w)

FocusWindow == \E w \in Live(model) : model' = Focus(model, w)

Cycle == \E o \in Outputs, forward \in BOOLEAN : model' = CycleFocus(model, o, forward)

MigrateOutput == \E from, to \in Outputs : model' = Migrate(model, from, to)

Next == Resize \/ OpenWindow \/ OpenDialogOrPopup \/ Adopt \/ CloseWindow
          \/ ActivateWindow \/ FocusWindow \/ Cycle \/ MigrateOutput

Spec == Init /\ [][Next]_vars

----------------------------------------------------------------------------
(* Type and safety                                                         *)

\* Windows and slots are the records they are in window.rs:96-150; focus names
\* a window that exists, or nothing, and every handle in use is below the next
\* (window.rs: close, push_window).
TypeOK == ModelTypeOK(model) /\ HandlesOK(model)

\* window.rs:103-104, 336-337: on every output, through opening, closing,
\* adoption, resizing and migration, the tiles hold distinct windows of the
\* bar, at most `capacity' of them, and the screen never keeps a hole while
\* windows queue on the bar.
TilesFollowBar == SlotsOK(model)

\* Every toplevel is on the bar of its own output and nobody else is on any
\* bar: no window becomes unreachable, no chip points at a dead one
\* (window.rs: open_toplevel, adopt_as_dialog, close, migrate).
BarsHoldToplevels == BarsOK(model)

\* A dialog or popup has a parent that still exists, and following parents
\* never comes back: what close and is_descendant walk is a forest
\* (window.rs:272-273, 283-286).
FamiliesAreTrees == FamiliesOK(model)

\* "A chip that moves when you swap windows is a chip you cannot hit twice in
\* a row" (window.rs:100-101): two windows that stay on a bar keep their order.
BarNeverReordered ==
  [][\A o \in DOMAIN model.slots :
       LET old == model.slots[o].order
           new == model'.slots[o].order
       IN  \A a, b \in Elements(old) \cap Elements(new) :
             Position(old, a) < Position(old, b) => Position(new, a) < Position(new, b)]_vars

\* Opening or activating a window sends at most one window back to the bar
\* (window.rs:180-182, 375-377): nothing else on the output gives up its tile.
AtMostOneEvicted ==
  [][\A o \in DOMAIN model.slots :
       LET old == model.slots[o]
           new == model'.slots[o]
       IN  old.capacity = new.capacity
             => Cardinality((Elements(old.tiled) \ Elements(new.tiled))
                              \cap Elements(new.order)) <= 1]_vars

\* A resize does not shuffle the windows the user is looking at
\* (window.rs:167-168): one tile assignment is a prefix of the other.
ResizeKeepsLeadingTiles ==
  [][\A o \in DOMAIN model.slots :
       LET old == model.slots[o]
           new == model'.slots[o]
           n   == IF Len(old.tiled) < Len(new.tiled) THEN Len(old.tiled) ELSE Len(new.tiled)
       IN  old.capacity # new.capacity => Take(old.tiled, n) = Take(new.tiled, n)]_vars

\* "Leaving focus at None would make the keyboard go nowhere" (window.rs:362):
\* focus is lost only when no window is left on any tile.
FocusLostOnlyWhenNothingShown ==
  [][model.focus # NoWindow /\ model'.focus = NoWindow
       => \A o \in DOMAIN model'.slots : model'.slots[o].tiled = << >>]_vars

\* A handle outlives its window: a new window never gets the handle of one
\* that was closed (window.rs: push_window).
HandlesNeverReused ==
  [][\A w \in Live(model') \ Live(model) : w >= model.next_id /\ w < model'.next_id]_vars

\* What a user aims at by its place, and a client by its handle: no step
\* reorders a bar or gives a dead window's handle to another.
OrderIsKept == BarNeverReordered /\ HandlesNeverReused

\* What a user looks at: no step takes more off the tiles, or the keyboard off
\* the screen, than it has to.
ScreenIsKept == AtMostOneEvicted /\ ResizeKeepsLeadingTiles /\ FocusLostOnlyWhenNothingShown

----------------------------------------------------------------------------
(* What the comments say and the code does not keep                        *)

\* "Tiled windows come first, then the floating children of whatever is
\* visible" (window.rs:542-543): a child of a placed window is placed.
ChildrenOfVisiblePlaced ==
  \A o \in Outputs, w \in Live(model) :
    /\ ~IsToplevel(model, w) /\ model.windows[w].output = o
    /\ model.windows[w].parent \in Placed(model, o)
    => w \in Placed(model, o)
=============================================================================
