------------------------------ MODULE TabStrip ------------------------------
(***************************************************************************)
(* The card strip on its own: every method of gostui-core's TabStrip as an *)
(* action, called in any order on any card.                                *)
(***************************************************************************)
EXTENDS TabOps

CONSTANT MaxTabs  \* bound of the model: how many handles are ever given out

ASSUME MaxTabsAssumption == MaxTabs \in Nat

VARIABLE strip

vars == <<strip>>

----------------------------------------------------------------------------

Init == strip = EmptyStrip

AddTab == strip.next_id < MaxTabs /\ strip' = Add(strip)

RemoveTab == \E id \in Elements(strip.tabs) : strip' = RemoveCard(strip, id)

ActivateTab == \E id \in Elements(strip.tabs) : strip' = SetActive(strip, id)

SlideStrip ==
  \E forward \in BOOLEAN :
    CanSlide(strip, forward) /\ strip' = Slide(strip, forward)

ReorderTab ==
  \E id \in Elements(strip.tabs), to \in 0..MaxTabs : strip' = Reorder(strip, id, to)

PinTab == \E id \in Elements(strip.tabs) : strip' = Pin(strip, id)

UnpinTab == strip' = Unpin(strip)

Next == AddTab \/ RemoveTab \/ ActivateTab \/ SlideStrip \/ ReorderTab
          \/ PinTab \/ UnpinTab

Spec == Init /\ [][Next]_vars

----------------------------------------------------------------------------

\* The strip is the record it is in tab.rs:64-70: indices and handles never
\* go below zero.
TypeOK == strip \in Strips

\* After any sequence of calls there is an active card if there is a card,
\* the pin names a card that is there, and no two cards share a handle
\* (tab.rs:84-98: remove).
StripInv == ActiveInRange(strip) /\ PinnedTabExists(strip) /\ HandlesDistinct(strip)

\* Reordering shows the same card as before, not the same index (tab.rs:
\* reorder): a step that permutes the cards leaves the active one active.
ReorderKeepsActive ==
  [][Elements(strip'.tabs) = Elements(strip.tabs) /\ strip'.tabs # strip.tabs
       => ActiveTab(strip') = ActiveTab(strip)]_vars

\* A handle outlives its card: a card that appears never gets the handle of
\* one that was removed (tab.rs: add).
HandlesNeverReused ==
  [][\A id \in Elements(strip'.tabs) \ Elements(strip.tabs) :
        id >= strip.next_id /\ id < strip'.next_id]_vars

\* A step is about the cards it names: the one on the screen stays there when
\* cards change places, and no card gets another's handle.
StepsKeepCards == ReorderKeepsActive /\ HandlesNeverReused

----------------------------------------------------------------------------
(* What the comments say and the code does not keep                        *)

\* "A pinned tab reserves screen space and leaves the slider rotation while
\* it is pinned" (tab.rs:190-191): a slide never lands on the pinned card.
SlideSkipsPinned ==
  \A forward \in BOOLEAN :
    CanSlide(strip, forward) => ActiveTab(Slide(strip, forward)) \in Sliding(strip)
=============================================================================
