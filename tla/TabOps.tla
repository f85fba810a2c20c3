------------------------------- MODULE TabOps -------------------------------
(***************************************************************************)
(* The card strip that replaces the desktop, its data and methods:         *)
(* gostui-core/src/tab.rs.  A strip is the record the Rust struct is; its  *)
(* methods are operators from a strip to a strip.  A card is its handle:   *)
(* names and launcher items change nothing here.                           *)
(*                                                                         *)
(* `active' is an index counted from 0, as in the code; the handle of the  *)
(* active card is tabs[active + 1].                                        *)
(***************************************************************************)
EXTENDS Vec, SequencesExt

CONSTANT NoTab  \* Option::None for a TabId

ASSUME NoTabAssumption == NoTab \notin Nat

Strips == [tabs : Seq(Nat), active : Nat, pinned : Nat \cup {NoTab}, next_id : Nat]

EmptyStrip == [tabs |-> << >>, active |-> 0, pinned |-> NoTab, next_id |-> 0]

Has(s, id) == id \in Elements(s.tabs)

IndexOf(s, id) == Position(s.tabs, id) - 1

ActiveTab(s) == IF s.active < Len(s.tabs) THEN s.tabs[s.active + 1] ELSE NoTab

Sliding(s) == {id \in Elements(s.tabs) : id # s.pinned}

\* Variant: handles are counted by the cards there are.
Add_ReusesHandles(s) ==
  [s EXCEPT !.tabs = Append(@, s.next_id), !.next_id = Len(s.tabs) + 1]

Add(s) == [s EXCEPT !.tabs = Append(@, s.next_id), !.next_id = @ + 1]

\* Variant: the pin is left on the removed card.
RemoveCard_KeepsPin(s, id) ==
  LET tabs == RemoveAt(s.tabs, Position(s.tabs, id))
      last == IF Len(tabs) = 0 THEN 0 ELSE Len(tabs) - 1
  IN  [s EXCEPT !.tabs = tabs, !.active = IF @ >= Len(tabs) THEN last ELSE @]

\* Only an index past the end is corrected: removing a card to the left of
\* the active one makes its right neighbour active.
RemoveCard(s, id) ==
  LET tabs == RemoveAt(s.tabs, Position(s.tabs, id))
      last == IF Len(tabs) = 0 THEN 0 ELSE Len(tabs) - 1
  IN  [s EXCEPT !.tabs = tabs,
                !.pinned = IF @ = id THEN NoTab ELSE @,
                !.active = IF @ >= Len(tabs) THEN last ELSE @]

SetActive(s, id) == [s EXCEPT !.active = IndexOf(s, id)]

\* Variant: the strip has no left end.
CanSlide_NoLeftEnd(s, forward) == forward => s.active + 1 < Len(s.tabs)

CanSlide(s, forward) ==
  IF forward THEN s.active + 1 < Len(s.tabs) ELSE s.active > 0

Slide(s, forward) == [s EXCEPT !.active = IF forward THEN @ + 1 ELSE @ - 1]

\* Variant: the active index stays where it was.
Reorder_KeepsIndex(s, id, to) ==
  LET goal == IF to < Len(s.tabs) THEN to ELSE Len(s.tabs) - 1
      rest == RemoveAt(s.tabs, Position(s.tabs, id))
  IN  [s EXCEPT !.tabs = InsertAt(rest, goal + 1, id)]

\* Move a card to index `to', counted from 0 and clamped to the last one;
\* the active index is looked up again by handle.
Reorder(s, id, to) ==
  LET goal == IF to < Len(s.tabs) THEN to ELSE Len(s.tabs) - 1
      rest == RemoveAt(s.tabs, Position(s.tabs, id))
      tabs == InsertAt(rest, goal + 1, id)
  IN  IF goal = IndexOf(s, id) THEN s
      ELSE [s EXCEPT !.tabs = tabs, !.active = Position(tabs, ActiveTab(s)) - 1]

Pin(s, id) == [s EXCEPT !.pinned = id]

Unpin(s) == [s EXCEPT !.pinned = NoTab]

----------------------------------------------------------------------------
(* What a good strip is, in parts                                          *)

\* There is an active card exactly when there is a card: the index stays in
\* range through every removal and reordering (tab.rs: remove, active).
ActiveInRange(s) ==
  IF s.tabs = << >> THEN s.active = 0 ELSE s.active < Len(s.tabs)

\* The pin names a card of the strip, whatever was removed since it was set
\* (tab.rs: remove, pin).
PinnedTabExists(s) == s.pinned # NoTab => Has(s, s.pinned)

\* Every card of the strip has a handle of its own, and the next one given
\* out is none of theirs (tab.rs: add, next_id).
HandlesDistinct(s) ==
  NoDuplicates(s.tabs) /\ \A id \in Elements(s.tabs) : id < s.next_id
=============================================================================
