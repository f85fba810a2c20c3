--------------------------- MODULE OutputsProofs ----------------------------
(***************************************************************************)
(* The card strip stays well formed, for any number of cards, and so does  *)
(* the collection of outputs, whatever a backend reports; and what the two *)
(* renderers put on an output is a function of the frame's inputs, in      *)
(* which a client shows its window and nothing else.                       *)
(***************************************************************************)
EXTENDS TabStrip, Dock, Renderers, CoreProofs

USE BoundsAssumption, ReportsAssumption

----------------------------------------------------------------------------
(* The card strip                                                          *)

\* What every method preserves.
Inv == TypeOK /\ StripInv

LEMMA InitInv == Init => Inv
BY DEF Init, Inv, TypeOK, StripInv, EmptyStrip, Strips, ActiveInRange, PinnedTabExists,
       HandlesDistinct, NoDuplicates, Elements

\* The handle of a card that is there is a number, and so is its index.
LEMMA TabIndex ==
  ASSUME Inv, NEW id \in Elements(strip.tabs)
  PROVE  /\ id \in Nat /\ strip.tabs # << >>
         /\ Position(strip.tabs, id) \in 1..Len(strip.tabs)
         /\ strip.tabs[Position(strip.tabs, id)] = id
<1>1. strip.tabs \in Seq(Nat)
  BY DEF Inv, TypeOK, Strips
<1>2. /\ Position(strip.tabs, id) \in 1..Len(strip.tabs)
      /\ strip.tabs[Position(strip.tabs, id)] = id
  BY <1>1, PositionFacts
<1> QED BY <1>1, <1>2

\* The cards without the one at a position.
LEMMA RemoveFacts ==
  ASSUME NEW t \in Seq(Nat), NoDuplicates(t), NEW k \in 1..Len(t)
  PROVE  /\ RemoveAt(t, k) \in Seq(Nat) /\ Len(RemoveAt(t, k)) = Len(t) - 1
         /\ NoDuplicates(RemoveAt(t, k))
         /\ Elements(RemoveAt(t, k)) = Elements(t) \ {t[k]}
BY RemoveAtFacts, ZenonT(60)

LEMMA InsertFacts ==
  ASSUME NEW t \in Seq(Nat), NoDuplicates(t), NEW k \in 1..(Len(t) + 1),
         NEW id \in Nat, id \notin Elements(t)
  PROVE  /\ InsertAt(t, k, id) \in Seq(Nat) /\ NoDuplicates(InsertAt(t, k, id))
         /\ Elements(InsertAt(t, k, id)) = Elements(t) \cup {id}
<1>1. /\ InsertAt(t, k, id) \in Seq(Nat)
      /\ Len(InsertAt(t, k, id)) = Len(t) + 1
      /\ Elements(InsertAt(t, k, id)) = Elements(t) \cup {id}
      /\ NoDuplicates(t) /\ id \notin Elements(t) => NoDuplicates(InsertAt(t, k, id))
  BY InsertAtFacts
<1> QED BY <1>1, Zenon

LEMMA AddInv == Inv /\ AddTab => Inv'
<1> SUFFICES ASSUME Inv, AddTab PROVE Inv'
  OBVIOUS
<1> DEFINE t == strip.tabs
<1> DEFINE u == Append(t, strip.next_id)
<1>1. /\ t \in Seq(Nat) /\ strip.active \in Nat /\ strip.next_id \in Nat
      /\ strip.pinned \in Nat \cup {NoTab} /\ strip \in Strips
  BY DEF Inv, TypeOK, Strips
<1>2. strip' = [tabs |-> u, active |-> strip.active, pinned |-> strip.pinned,
                next_id |-> strip.next_id + 1]
  BY <1>1 DEF AddTab, Add, Strips
<1>3. NoDuplicates(t) /\ \A id \in Elements(t) : id < strip.next_id
  BY DEF Inv, StripInv, HandlesDistinct
<1>4. strip.next_id \notin Elements(t)
  BY <1>1, <1>3
<1>5. /\ u \in Seq(Nat) /\ Len(u) = Len(t) + 1
      /\ Elements(u) = Elements(t) \cup {strip.next_id} /\ NoDuplicates(u)
  BY <1>1, <1>3, <1>4, AppendFacts
<1> HIDE DEF u
<1>6. TypeOK'
  BY <1>1, <1>2, <1>5 DEF TypeOK, Strips
<1>7. ActiveInRange(strip)'
  <2>1. strip.active < Len(u) /\ u # << >>
    BY <1>1, <1>5 DEF Inv, StripInv, ActiveInRange
  <2> QED BY <2>1, <1>2 DEF ActiveInRange
<1>8. PinnedTabExists(strip)'
  BY <1>2, <1>5 DEF Inv, StripInv, PinnedTabExists, Has
<1>9. HandlesDistinct(strip)'
  <2>1. Elements(t) \subseteq Nat
    BY <1>1 DEF Elements
  <2>2. \A id \in Elements(u) : id < strip.next_id + 1
    <3> TAKE id \in Elements(u)
    <3>1. id \in Nat /\ (id < strip.next_id \/ id = strip.next_id)
      BY <1>1, <1>3, <1>5, <2>1, Zenon
    <3> QED BY <3>1, <1>1
  <2> QED BY <1>2, <1>5, <2>2 DEF HandlesDistinct
<1> QED BY <1>6, <1>7, <1>8, <1>9 DEF Inv, StripInv

LEMMA RemoveInv == Inv /\ RemoveTab => Inv'
<1> SUFFICES ASSUME Inv, NEW id \in Elements(strip.tabs), strip' = RemoveCard(strip, id)
             PROVE  Inv'
  BY DEF RemoveTab
<1> DEFINE t == strip.tabs
<1> DEFINE u == RemoveAt(t, Position(t, id))
<1> DEFINE last == IF Len(u) = 0 THEN 0 ELSE Len(u) - 1
<1> DEFINE a == IF strip.active >= Len(u) THEN last ELSE strip.active
<1> DEFINE p == IF strip.pinned = id THEN NoTab ELSE strip.pinned
<1>1. /\ t \in Seq(Nat) /\ strip.active \in Nat /\ strip.next_id \in Nat
      /\ strip.pinned \in Nat \cup {NoTab} /\ strip \in Strips
  BY DEF Inv, TypeOK, Strips
<1>2. strip' = [tabs |-> u, active |-> a, pinned |-> p, next_id |-> strip.next_id]
  BY <1>1 DEF RemoveCard, Strips
<1>3. NoDuplicates(t) /\ \A x \in Elements(t) : x < strip.next_id
  BY DEF Inv, StripInv, HandlesDistinct
<1>4. Position(t, id) \in 1..Len(t) /\ t[Position(t, id)] = id
  BY TabIndex
<1>5. /\ u \in Seq(Nat) /\ NoDuplicates(u) /\ Elements(u) = Elements(t) \ {id}
  BY <1>1, <1>3, <1>4, RemoveFacts
<1> HIDE DEF u
<1>6. Len(u) \in Nat
  BY <1>5
<1>7. a \in Nat /\ IF u = << >> THEN a = 0 ELSE a < Len(u)
  <2>1. u = << >> <=> Len(u) = 0
    BY <1>5, EmptySeq
  <2> QED BY <2>1, <1>1, <1>6
<1>8. p \in Nat \cup {NoTab} /\ (p # NoTab => p \in Elements(u))
  BY <1>1, <1>5 DEF Inv, StripInv, PinnedTabExists, Has
<1> HIDE DEF a, p
<1>9. TypeOK'
  BY <1>1, <1>2, <1>5, <1>7, <1>8 DEF TypeOK, Strips
<1>10. ActiveInRange(strip)' /\ PinnedTabExists(strip)' /\ HandlesDistinct(strip)'
  BY <1>2, <1>3, <1>5, <1>7, <1>8 DEF ActiveInRange, PinnedTabExists, Has, HandlesDistinct
<1> QED BY <1>9, <1>10 DEF Inv, StripInv

\* The methods that only move the active index or the pin.
LEMMA IndexInv ==
  ASSUME Inv, NEW a \in Nat, NEW p \in Nat \cup {NoTab},
         strip' = [strip EXCEPT !.active = a, !.pinned = p],
         IF strip.tabs = << >> THEN a = 0 ELSE a < Len(strip.tabs),
         p # NoTab => Has(strip, p)
  PROVE  Inv'
<1>1. strip \in Strips
  BY DEF Inv, TypeOK
<1>2. /\ strip'.tabs = strip.tabs /\ strip'.next_id = strip.next_id
      /\ strip'.active = a /\ strip'.pinned = p /\ strip' \in Strips
  BY <1>1 DEF Strips
<1> QED BY <1>2 DEF Inv, TypeOK, StripInv, ActiveInRange, PinnedTabExists, Has, HandlesDistinct

LEMMA ReorderInv == Inv /\ ReorderTab => Inv'
<1> SUFFICES ASSUME Inv, NEW id \in Elements(strip.tabs), NEW to \in 0..MaxTabs,
                    strip' = Reorder(strip, id, to), strip' # strip
             PROVE  Inv'
  BY DEF ReorderTab, Inv, TypeOK, StripInv
<1> DEFINE t == strip.tabs
<1> DEFINE goal == IF to < Len(t) THEN to ELSE Len(t) - 1
<1> DEFINE rest == RemoveAt(t, Position(t, id))
<1> DEFINE u == InsertAt(rest, goal + 1, id)
<1> DEFINE a == Position(u, ActiveTab(strip)) - 1
<1>1. /\ t \in Seq(Nat) /\ strip.active \in Nat /\ strip.next_id \in Nat
      /\ strip.pinned \in Nat \cup {NoTab} /\ strip \in Strips /\ to \in Nat
  BY MaxTabsAssumption DEF Inv, TypeOK, Strips
<1>2. strip' = [tabs |-> u, active |-> a, pinned |-> strip.pinned, next_id |-> strip.next_id]
  BY <1>1 DEF Reorder, Strips
<1>3. NoDuplicates(t) /\ \A x \in Elements(t) : x < strip.next_id
  BY DEF Inv, StripInv, HandlesDistinct
<1>4. id \in Nat /\ t # << >> /\ Position(t, id) \in 1..Len(t) /\ t[Position(t, id)] = id
  BY TabIndex
<1>5. /\ rest \in Seq(Nat) /\ Len(rest) = Len(t) - 1 /\ NoDuplicates(rest)
      /\ Elements(rest) = Elements(t) \ {id}
  BY <1>1, <1>3, <1>4, RemoveFacts
<1> HIDE DEF rest
<1>6. goal + 1 \in 1..(Len(rest) + 1)
  BY <1>1, <1>4, <1>5
<1> HIDE DEF goal
<1>7. /\ u \in Seq(Nat) /\ NoDuplicates(u) /\ Elements(u) = Elements(t)
  <2>1. /\ u \in Seq(Nat) /\ NoDuplicates(u) /\ Elements(u) = Elements(rest) \cup {id}
    <3>1. id \notin Elements(rest)
      BY <1>5
    <3> QED BY <1>4, <1>5, <1>6, <3>1, InsertFacts
  <2> QED BY <2>1, <1>5
<1> HIDE DEF u
<1>8. ActiveTab(strip) \in Elements(u)
  <2>1. strip.active < Len(t) /\ strip.active + 1 \in 1..Len(t)
    BY <1>1, <1>4 DEF Inv, StripInv, ActiveInRange
  <2> QED BY <2>1, <1>7 DEF ActiveTab, Elements
<1>9. Position(u, ActiveTab(strip)) \in 1..Len(u)
  BY <1>7, <1>8, PositionFacts
<1>10. a \in Nat /\ a < Len(u) /\ u # << >>
  BY <1>7, <1>9
<1> HIDE DEF a
<1>11. TypeOK'
  BY <1>1, <1>2, <1>7, <1>10 DEF TypeOK, Strips
<1>12. ActiveInRange(strip)' /\ PinnedTabExists(strip)' /\ HandlesDistinct(strip)'
  BY <1>2, <1>3, <1>7, <1>10
  DEF ActiveInRange, PinnedTabExists, Has, HandlesDistinct, Inv, StripInv
<1> QED BY <1>11, <1>12 DEF Inv, StripInv

LEMMA NextInv == Inv /\ [Next]_vars => Inv'
<1> SUFFICES ASSUME Inv, [Next]_vars PROVE Inv'
  OBVIOUS
<1>0. /\ strip \in Strips /\ strip.tabs \in Seq(Nat) /\ strip.active \in Nat
      /\ strip.pinned \in Nat \cup {NoTab} /\ Len(strip.tabs) \in Nat
  BY DEF Inv, TypeOK, Strips
<1>a. strip.pinned # NoTab => Has(strip, strip.pinned)
  BY DEF Inv, StripInv, PinnedTabExists
<1>b. IF strip.tabs = << >> THEN strip.active = 0 ELSE strip.active < Len(strip.tabs)
  BY DEF Inv, StripInv, ActiveInRange
<1>1. CASE AddTab
  BY <1>1, AddInv
<1>2. CASE RemoveTab
  BY <1>2, RemoveInv
<1>3. CASE ActivateTab
  <2>1. PICK id \in Elements(strip.tabs) : strip' = SetActive(strip, id)
    BY <1>3 DEF ActivateTab
  <2>2. Position(strip.tabs, id) \in 1..Len(strip.tabs) /\ strip.tabs # << >>
    BY TabIndex
  <2> DEFINE a == Position(strip.tabs, id) - 1
  <2>3. a \in Nat /\ a < Len(strip.tabs)
    BY <1>0, <2>2
  <2>4. strip' = [strip EXCEPT !.active = a, !.pinned = strip.pinned]
    BY <1>0, <2>1 DEF SetActive, IndexOf, Strips
  <2> HIDE DEF a
  <2> QED BY <1>0, <1>a, <2>2, <2>3, <2>4, IndexInv
<1>4. CASE SlideStrip
  <2>1. PICK forward \in BOOLEAN : CanSlide(strip, forward) /\ strip' = Slide(strip, forward)
    BY <1>4 DEF SlideStrip
  <2> DEFINE a == IF forward THEN strip.active + 1 ELSE strip.active - 1
  <2>2. a \in Nat /\ a < Len(strip.tabs) /\ strip.tabs # << >>
    BY <1>0, <1>b, <2>1 DEF CanSlide
  <2>3. strip' = [strip EXCEPT !.active = a, !.pinned = strip.pinned]
    BY <1>0, <2>1 DEF Slide, Strips
  <2> HIDE DEF a
  <2> QED BY <1>0, <1>a, <2>2, <2>3, IndexInv
<1>5. CASE ReorderTab
  BY <1>5, ReorderInv
<1>6. CASE PinTab
  <2>1. PICK id \in Elements(strip.tabs) : strip' = Pin(strip, id)
    BY <1>6 DEF PinTab
  <2>2. id \in Nat /\ Has(strip, id)
    BY TabIndex DEF Has
  <2>3. strip' = [strip EXCEPT !.active = strip.active, !.pinned = id]
    BY <1>0, <2>1 DEF Pin, Strips
  <2> QED BY <1>0, <1>b, <2>2, <2>3, IndexInv
<1>7. CASE UnpinTab
  <2>1. strip' = [strip EXCEPT !.active = strip.active, !.pinned = NoTab]
    BY <1>0, <1>7 DEF UnpinTab, Unpin, Strips
  <2> QED BY <1>0, <1>b, <2>1, IndexInv
<1>8. CASE UNCHANGED vars
  BY <1>8 DEF vars, Inv, TypeOK, StripInv
<1> QED BY <1>1, <1>2, <1>3, <1>4, <1>5, <1>6, <1>7, <1>8 DEF Next

THEOREM SpecInv == Spec => []Inv
<1>1. Init => Inv
  BY InitInv
<1>2. Inv /\ [Next]_vars => Inv'
  BY NextInv
<1> QED BY <1>1, <1>2, PTL DEF Spec

\* The fields of the strip keep their types (tab.rs:64-70), whatever is
\* called: no index ever goes below zero.
THEOREM TypeCorrect == Spec => []TypeOK
<1>1. Inv => TypeOK
  BY DEF Inv
<1> QED BY <1>1, SpecInv, PTL

\* The active index, the pin and the handles stay right through every removal
\* and reordering (tab.rs:86-98, 170-187), for any number of cards.
THEOREM StripStaysSound == Spec => []StripInv
<1>1. Inv => StripInv
  BY DEF Inv
<1> QED BY <1>1, SpecInv, PTL

\* What a reordering does to the strip: the same cards, and the same one shown.
LEMMA ReorderFacts ==
  ASSUME Inv, ReorderTab, strip' # strip
  PROVE  ActiveTab(strip') = ActiveTab(strip) /\ Elements(strip'.tabs) = Elements(strip.tabs)
<1> PICK id \in Elements(strip.tabs), to \in 0..MaxTabs : strip' = Reorder(strip, id, to)
  BY DEF ReorderTab
<1> DEFINE t == strip.tabs
<1> DEFINE goal == IF to < Len(t) THEN to ELSE Len(t) - 1
<1> DEFINE rest == RemoveAt(t, Position(t, id))
<1> DEFINE u == InsertAt(rest, goal + 1, id)
<1> DEFINE k == Position(u, ActiveTab(strip))
<1>1. t \in Seq(Nat) /\ strip.active \in Nat /\ strip \in Strips /\ to \in Nat
  BY MaxTabsAssumption DEF Inv, TypeOK, Strips
<1>2. strip'.tabs = u /\ strip'.active = k - 1
  BY <1>1 DEF Reorder, Strips
<1>3. NoDuplicates(t)
  BY DEF Inv, StripInv, HandlesDistinct
<1>4. id \in Nat /\ t # << >> /\ Position(t, id) \in 1..Len(t) /\ t[Position(t, id)] = id
  BY TabIndex
<1>5. /\ rest \in Seq(Nat) /\ Len(rest) = Len(t) - 1 /\ NoDuplicates(rest)
      /\ Elements(rest) = Elements(t) \ {id}
  BY <1>1, <1>3, <1>4, RemoveFacts
<1> HIDE DEF rest
<1>6. goal + 1 \in 1..(Len(rest) + 1) /\ id \notin Elements(rest)
  BY <1>1, <1>4, <1>5
<1> HIDE DEF goal
<1>7. u \in Seq(Nat) /\ Elements(u) = Elements(t)
  <2>1. u \in Seq(Nat) /\ Elements(u) = Elements(rest) \cup {id}
    BY <1>4, <1>5, <1>6, InsertFacts
  <2> QED BY <2>1, <1>5
<1> HIDE DEF u
<1>8. ActiveTab(strip) \in Elements(u)
  <2>1. strip.active < Len(t) /\ strip.active + 1 \in 1..Len(t)
    BY <1>1, <1>4 DEF Inv, StripInv, ActiveInRange
  <2> QED BY <2>1, <1>7 DEF ActiveTab, Elements
<1>9. k \in 1..Len(u) /\ u[k] = ActiveTab(strip)
  BY <1>7, <1>8, PositionFacts
<1> HIDE DEF k
<1>10. k - 1 < Len(u) /\ (k - 1) + 1 = k
  BY <1>7, <1>9
<1> QED BY <1>2, <1>7, <1>9, <1>10 DEF ActiveTab

\* The cards of the next strip, action by action.
LEMMA NextTabs ==
  ASSUME Inv, Next
  PROVE  \/ ReorderTab /\ strip' # strip
         \/ strip'.tabs = strip.tabs /\ strip'.next_id = strip.next_id
         \/ /\ Elements(strip'.tabs) = Elements(strip.tabs) \cup {strip.next_id}
            /\ strip'.next_id = strip.next_id + 1 /\ strip.next_id \notin Elements(strip.tabs)
         \/ /\ \E id \in Elements(strip.tabs) : Elements(strip'.tabs) = Elements(strip.tabs) \ {id}
            /\ strip'.next_id = strip.next_id
<1>1. /\ strip \in Strips /\ strip.tabs \in Seq(Nat) /\ strip.next_id \in Nat
      /\ NoDuplicates(strip.tabs) /\ \A id \in Elements(strip.tabs) : id < strip.next_id
  BY DEF Inv, TypeOK, Strips, StripInv, HandlesDistinct
<1>2. CASE AddTab
  <2>1. strip'.tabs = Append(strip.tabs, strip.next_id) /\ strip'.next_id = strip.next_id + 1
    BY <1>1, <1>2 DEF AddTab, Add, Strips
  <2>2. Elements(Append(strip.tabs, strip.next_id)) = Elements(strip.tabs) \cup {strip.next_id}
    BY <1>1, AppendFacts
  <2>3. strip.next_id \notin Elements(strip.tabs)
    BY <1>1
  <2> QED BY <2>1, <2>2, <2>3
<1>3. CASE RemoveTab
  <2>1. PICK id \in Elements(strip.tabs) : strip' = RemoveCard(strip, id)
    BY <1>3 DEF RemoveTab
  <2>2. /\ strip'.tabs = RemoveAt(strip.tabs, Position(strip.tabs, id))
        /\ strip'.next_id = strip.next_id
    BY <1>1, <2>1 DEF RemoveCard, Strips
  <2>3. Elements(strip'.tabs) = Elements(strip.tabs) \ {id}
    BY <1>1, <2>2, TabIndex, RemoveFacts
  <2> QED BY <2>2, <2>3
<1>4. CASE ActivateTab \/ SlideStrip \/ PinTab \/ UnpinTab
  BY <1>1, <1>4 DEF ActivateTab, SetActive, SlideStrip, Slide, PinTab, Pin, UnpinTab, Unpin, Strips
<1>5. CASE ReorderTab
  BY <1>5
<1> QED BY <1>2, <1>3, <1>4, <1>5 DEF Next

\* Reordering shows the same card as before (tab.rs:170-187), wherever it and
\* the moved card are.
THEOREM ReorderingKeepsTheCard == Spec => ReorderKeepsActive
<1> DEFINE A == Elements(strip'.tabs) = Elements(strip.tabs) /\ strip'.tabs # strip.tabs
                  => ActiveTab(strip') = ActiveTab(strip)
<1>1. Inv /\ Next => A
  BY NextTabs, ReorderFacts
<1>2. Inv /\ [Next]_vars => [A]_vars
  BY <1>1
<1> HIDE DEF A
<1>3. Spec => [][A]_vars
  BY <1>2, SpecInv, PTL DEF Spec
<1> QED BY <1>3 DEF ReorderKeepsActive, A

\* A handle is given out once (tab.rs:77-82), however many cards come and go.
THEOREM CardHandlesAreFresh == Spec => HandlesNeverReused
<1> DEFINE A == \A id \in Elements(strip'.tabs) \ Elements(strip.tabs) :
                  id >= strip.next_id /\ id < strip'.next_id
<1>1. ASSUME Inv, Next PROVE A
  <2>1. strip.next_id \in Nat
    BY <1>1 DEF Inv, TypeOK, Strips
  <2>2. CASE ReorderTab /\ strip' # strip
    BY <1>1, <2>2, ReorderFacts
  <2> QED BY <1>1, <2>1, <2>2, NextTabs
<1>2. Inv /\ [Next]_vars => [A]_vars
  BY <1>1
<1> HIDE DEF A
<1>3. Spec => [][A]_vars
  BY <1>2, SpecInv, PTL DEF Spec
<1> QED BY <1>3 DEF HandlesNeverReused, A

\* tab.rs:77-82 and :170-187 together: a card stays the card it is, whichever
\* way the strip around it changes.
THEOREM CardsStayWhatTheyAre == Spec => StepsKeepCards
BY ReorderingKeepsTheCard, CardHandlesAreFresh DEF StepsKeepCards

----------------------------------------------------------------------------
(* One output                                                              *)

Built == [id : Nat, mode_px : Modes, scale : Nat \ {0}, transform : Transforms,
          position : Positions \cup {Point(0, 0)}]

\* Rounding a size down to a whole number of units loses less than a unit.
LEMMA UnitsFit ==
  ASSUME NEW w \in Int, NEW s \in Nat \ {0}
  PROVE  LET q == Most(Quot(w, s), 1)
         IN  /\ q \in Nat /\ q >= 1 /\ q * s <= Most(w, s) /\ w < (q + 1) * s
<1>1. CASE w >= s
  <2>1. w \div s \in Nat /\ (w \div s) * s <= w /\ w < ((w \div s) + 1) * s
    BY <1>1
  <2>2. w \div s >= 1
    BY <1>1, <2>1
  <2> QED BY <1>1, <2>1, <2>2 DEF Quot, Most
<1>2. CASE w < s
  <2>1. Quot(w, s) \in Int /\ Quot(w, s) <= 0
    <3>1. CASE w >= 0
      <4>1. w \div s = 0
        BY <1>2, <3>1
      <4> QED BY <3>1, <4>1 DEF Quot
    <3>2. CASE w < 0
      <4>1. (-w) \div s \in Nat
        BY <3>2
      <4> QED BY <3>2, <4>1 DEF Quot
    <3> QED BY <3>1, <3>2
  <2>2. Most(Quot(w, s), 1) = 1 /\ Most(w, s) = s
    BY <1>2, <2>1 DEF Most
  <2> QED BY <1>2, <2>2
<1> QED BY <1>1, <1>2

\* One output as it is built has a size to lay out in that fits its mode.
LEMMA OutputFits ==
  ASSUME NEW o \in Built
  PROVE  LET s  == LogicalSize(o)
             px == IF o.transform \in {"90", "270", "flipped90", "flipped270"}
                   THEN [w |-> o.mode_px.h, h |-> o.mode_px.w] ELSE o.mode_px
         IN  /\ s.w >= 1 /\ s.h >= 1
             /\ s.w * o.scale <= Most(px.w, o.scale) /\ px.w < (s.w + 1) * o.scale
             /\ s.h * o.scale <= Most(px.h, o.scale) /\ px.h < (s.h + 1) * o.scale
<1> DEFINE px == IF o.transform \in {"90", "270", "flipped90", "flipped270"}
                 THEN [w |-> o.mode_px.h, h |-> o.mode_px.w] ELSE o.mode_px
<1>1. /\ o.mode_px \in [w : Int, h : Int] /\ o.scale \in Nat \ {0}
      /\ px.w \in Int /\ px.h \in Int
  BY DEF Built
<1>2. Rotated(o).w = px.w /\ Rotated(o).h = px.h
  BY DEF Rotated, SwapsAxes, Size
<1>3. Most(o.scale, 1) = o.scale
  BY <1>1 DEF Most
<1>4. /\ LogicalSize(o).w = Most(Quot(px.w, o.scale), 1)
      /\ LogicalSize(o).h = Most(Quot(px.h, o.scale), 1)
  BY <1>2, <1>3, Zenon DEF LogicalSize, Size
<1> HIDE DEF px
<1>5. /\ LogicalSize(o).w >= 1
      /\ LogicalSize(o).w * o.scale <= Most(px.w, o.scale)
      /\ px.w < (LogicalSize(o).w + 1) * o.scale
  BY <1>1, <1>4, UnitsFit
<1>6. /\ LogicalSize(o).h >= 1
      /\ LogicalSize(o).h * o.scale <= Most(px.h, o.scale)
      /\ px.h < (LogicalSize(o).h + 1) * o.scale
  BY <1>1, <1>4, UnitsFit
<1> QED BY <1>5, <1>6 DEF px

----------------------------------------------------------------------------
(* The collection                                                          *)

\* What every call preserves: outputs with handles of their own, each given
\* out before and below the next one.
DockInv == outputs \in Seq(Built) /\ DockTypeOK

LEMMA DockInvSays ==
  ASSUME DockInv
  PROVE  /\ outputs \in Seq(Built) /\ next_id \in Nat
         /\ \A i \in 1..Len(outputs) : outputs[i] \in Built /\ outputs[i].id \in given
         /\ \A i, j \in 1..Len(outputs) : outputs[i].id = outputs[j].id => i = j
         /\ given \subseteq 0..(next_id - 1)
         /\ NoDuplicates(outputs)
BY DEF DockInv, DockTypeOK, Ids, NoDuplicates

\* And the other way round.
LEMMA DockInvNext ==
  ASSUME outputs' \in Seq(Built), next_id' \in Nat,
         \A i \in 1..Len(outputs') : outputs'[i].id \in given',
         \A i, j \in 1..Len(outputs') : outputs'[i].id = outputs'[j].id => i = j,
         given' \subseteq 0..(next_id' - 1)
  PROVE  DockInv'
<1>1. DOMAIN outputs' = 1..Len(outputs') /\ \A i \in 1..Len(outputs') : outputs'[i] \in Built
  OBVIOUS
<1>2. \A i \in DOMAIN outputs' : outputs'[i].mode_px \in Modes /\ outputs'[i].scale \in Nat \ {0}
  BY <1>1 DEF Built
<1>3. Ids(outputs)' \subseteq given'
  BY <1>1 DEF Ids
<1>4. \A i, j \in DOMAIN outputs' : outputs'[i].id = outputs'[j].id => i = j
  BY <1>1
<1> QED BY <1>2, <1>3, <1>4 DEF DockInv, DockTypeOK

LEMMA DockInitInv == DockInit => DockInv
BY DEF DockInit, DockInv, DockTypeOK, Ids

\* plug: at the end, under a handle nobody had.
LEMMA AddOutputInv ==
  ASSUME DockInv, NEW mode \in Modes, AddOutput(mode)
  PROVE  /\ DockInv' /\ next_id \notin given
         /\ Fallback # {} => Fallback' = Fallback
<1> DEFINE o == NewOutput(next_id, mode)
<1>1. o \in Built /\ o.id = next_id
  BY DockInvSays DEF NewOutput, Built, Transforms
<1>2. outputs' = Append(outputs, o) /\ next_id' = next_id + 1 /\ given' = given \cup {next_id}
  BY DEF AddOutput
<1> HIDE DEF o
<1>3. /\ outputs' \in Seq(Built) /\ Len(outputs') = Len(outputs) + 1
      /\ outputs'[Len(outputs) + 1] = o
      /\ \A i \in 1..Len(outputs) : outputs'[i] = outputs[i]
  BY <1>1, <1>2, DockInvSays
<1>4. next_id \notin given
  BY DockInvSays
<1>5. DockInv'
  <2>1. 1..Len(outputs') = 1..Len(outputs) \cup {Len(outputs) + 1}
    BY <1>3, DockInvSays
  <2>2. \A i \in 1..Len(outputs') : outputs'[i].id \in given'
    BY <1>1, <1>2, <1>3, <2>1, DockInvSays
  <2>3. \A i, j \in 1..Len(outputs') : outputs'[i].id = outputs'[j].id => i = j
    BY <1>1, <1>3, <1>4, <2>1, DockInvSays
  <2>4. next_id' \in Nat /\ given' \subseteq 0..(next_id' - 1)
    BY <1>2, DockInvSays
  <2> QED BY <1>3, <2>2, <2>3, <2>4, DockInvNext
<1>6. Fallback # {} => Fallback' = Fallback
  <2> SUFFICES ASSUME outputs # << >> PROVE Fallback' = Fallback
    BY DEF Fallback
  <2>1. Len(outputs) \in Nat /\ Len(outputs) >= 1
    BY DockInvSays
  <2> QED BY <1>3, <2>1 DEF Fallback
<1> QED BY <1>4, <1>5, <1>6

\* A call that keeps every place: the handles there are what they were.
LEMMA InPlaceInv ==
  ASSUME DockInv, outputs' \in Seq(Built), Len(outputs') = Len(outputs),
         \A i \in 1..Len(outputs) : outputs'[i].id = outputs[i].id,
         next_id' \in Nat, given \subseteq given', given' \subseteq 0..(next_id' - 1)
  PROVE  DockInv' /\ Fallback' = Fallback
<1>1. DockInv'
  <2>1. \A i \in 1..Len(outputs') : outputs'[i].id \in given'
    BY DockInvSays
  <2>2. \A i, j \in 1..Len(outputs') : outputs'[i].id = outputs'[j].id => i = j
    BY DockInvSays
  <2> QED BY <2>1, <2>2, DockInvNext
<1>2. Fallback' = Fallback
  <2>1. Len(outputs) \in Nat /\ (outputs = << >> <=> Len(outputs) = 0)
    BY DockInvSays
  <2>2. outputs' = << >> <=> Len(outputs') = 0
    OBVIOUS
  <2>3. Len(outputs) # 0 => outputs'[1].id = outputs[1].id
    BY <2>1
  <2> QED BY <2>1, <2>2, <2>3 DEF Fallback
<1> QED BY <1>1, <1>2

\* insert: in the place of the one it replaces, or at the end.
LEMMA InsertInv ==
  ASSUME DockInv, NEW o \in Built, Insert(o)
  PROVE  DockInv' /\ (Fallback # {} => Fallback' = Fallback)
<1>1. /\ next_id' \in Nat /\ o.id \in Nat
      /\ given' = given \cup {o.id} /\ given' \subseteq 0..(next_id' - 1)
  <2>1. next_id' = NextAfter(o.id) /\ given' = given \cup {o.id} /\ o.id \in Nat
    BY DEF Insert, Built
  <2>2. /\ NextAfter(o.id) \in Nat /\ NextAfter(o.id) >= next_id
        /\ NextAfter(o.id) >= o.id + 1
    BY <2>1, DockInvSays DEF NextAfter, Most
  <2> QED BY <2>1, <2>2, DockInvSays
<1>2. CASE o.id \in Ids(outputs)
  <2>1. outputs' = [i \in DOMAIN outputs |-> IF outputs[i].id = o.id THEN o ELSE outputs[i]]
    BY <1>2 DEF Insert, Inserted
  <2>2. DOMAIN outputs = 1..Len(outputs)
    BY DockInvSays
  <2>3. /\ outputs' \in Seq(Built) /\ Len(outputs') = Len(outputs)
        /\ \A i \in 1..Len(outputs) : outputs'[i].id = outputs[i].id
    BY <2>1, <2>2, DockInvSays
  <2> QED BY <1>1, <2>3, InPlaceInv
<1>3. CASE o.id \notin Ids(outputs)
  <2>1. outputs' = Append(outputs, o)
    BY <1>3 DEF Insert, Inserted
  <2>2. /\ outputs' \in Seq(Built) /\ Len(outputs') = Len(outputs) + 1
        /\ outputs'[Len(outputs) + 1] = o
        /\ \A i \in 1..Len(outputs) : outputs'[i] = outputs[i]
    BY <2>1, DockInvSays
  <2>3. 1..Len(outputs') = 1..Len(outputs) \cup {Len(outputs) + 1}
    BY <2>2, DockInvSays
  <2>4. \A i \in 1..Len(outputs) : outputs[i].id # o.id
    BY <1>3, DockInvSays DEF Ids
  <2>5. DockInv'
    <3>1. \A i \in 1..Len(outputs') : outputs'[i].id \in given'
      BY <1>1, <2>2, <2>3, DockInvSays
    <3>2. \A i, j \in 1..Len(outputs') : outputs'[i].id = outputs'[j].id => i = j
      BY <2>2, <2>3, <2>4, DockInvSays
    <3> QED BY <1>1, <2>2, <3>1, <3>2, DockInvNext
  <2>6. Fallback # {} => Fallback' = Fallback
    <3> SUFFICES ASSUME outputs # << >> PROVE Fallback' = Fallback
      BY DEF Fallback
    <3>1. Len(outputs) \in Nat /\ Len(outputs) >= 1
      BY DockInvSays
    <3> QED BY <2>2, <3>1 DEF Fallback
  <2> QED BY <2>5, <2>6
<1> QED BY <1>2, <1>3

\* remove: the others keep their order, so the first stays first.
LEMMA RemoveOutputInv ==
  ASSUME DockInv, NEW id, RemoveOutput(id)
  PROVE  /\ DockInv'
         /\ Fallback # {} /\ Fallback \subseteq Ids(outputs') => Fallback' = Fallback
<1> DEFINE S == {o \in Elements(outputs) : o.id # id}
<1>1. outputs' = Retain(outputs, S) /\ next_id' = next_id /\ given' = given
  BY DEF RemoveOutput
<1>2. /\ outputs' \in Seq(Built) /\ NoDuplicates(outputs')
      /\ Elements(outputs') = S /\ S \subseteq Elements(outputs)
  <2>1. Elements(outputs) \cap S = S
    OBVIOUS
  <2> QED BY <1>1, <2>1, RetainFacts, DockInvSays
<1>3. \A o, p \in Elements(outputs) : o.id = p.id => o = p
  BY DockInvSays DEF Elements
<1>4. DockInv'
  <2>1. \A i \in 1..Len(outputs') : outputs'[i] \in Elements(outputs)
    BY <1>2 DEF Elements
  <2>2. \A i \in 1..Len(outputs') : outputs'[i].id \in given'
    BY <1>1, <2>1, DockInvSays DEF Elements
  <2>3. \A i, j \in 1..Len(outputs') : outputs'[i].id = outputs'[j].id => i = j
    BY <1>2, <1>3, <2>1 DEF NoDuplicates
  <2> QED BY <1>1, <1>2, <2>2, <2>3, DockInvSays, DockInvNext
<1>5. ASSUME Fallback # {}, Fallback \subseteq Ids(outputs')
      PROVE  Fallback' = Fallback
  <2> DEFINE first == outputs[1]
  <2>1. outputs # << >> /\ Len(outputs) \in Nat /\ 1 \in 1..Len(outputs)
    BY <1>5, DockInvSays DEF Fallback
  <2>2. Fallback = {first.id} /\ first \in Elements(outputs)
    BY <2>1 DEF Fallback, Elements
  <2>3. PICK k \in 1..Len(outputs') : outputs'[k].id = first.id
    BY <1>2, <1>5, <2>2 DEF Ids
  <2>4. outputs'[k] \in Elements(outputs') /\ outputs'[k] = first
    BY <1>2, <1>3, <2>2, <2>3 DEF Elements
  <2>5. 1 \in 1..Len(outputs') /\ outputs' # << >>
    BY <1>2, <2>3
  <2>6. outputs'[1] = first
    <3> SUFFICES ASSUME outputs'[1] # first PROVE FALSE
      OBVIOUS
    <3> DEFINE other == outputs'[1]
    <3>1. other \in Elements(outputs') /\ other \in Elements(outputs)
      BY <1>2, <2>5 DEF Elements
    <3>2. PICK m \in 1..Len(outputs) : outputs[m] = other
      BY <3>1 DEF Elements
    <3>3. m # 1
      BY <3>2
    <3>4. Position(outputs, first) = 1 /\ Position(outputs, other) = m
      BY <2>1, <3>2, PositionOf, DockInvSays
    <3>5. Position(Retain(outputs, S), first) < Position(Retain(outputs, S), other)
      <4>1. first \in Elements(outputs) \cap S /\ other \in Elements(outputs) \cap S
        BY <1>2, <2>2, <2>4, <3>1
      <4>2. Position(outputs, first) < Position(outputs, other)
        BY <3>2, <3>3, <3>4
      <4> HIDE DEF first, other, S
      <4> QED BY <4>1, <4>2, RetainKeepsOrder, DockInvSays
    <3>6. Position(outputs', other) = 1
      BY <1>2, <2>5, PositionOf
    <3>7. Position(outputs', first) \in 1..Len(outputs')
      BY <1>2, <2>4, PositionFacts
    <3> QED BY <1>1, <3>5, <3>6, <3>7
  <2> QED BY <2>2, <2>5, <2>6 DEF Fallback
<1> QED BY <1>4, <1>5

\* get_mut: another mode in the same place.
LEMMA SetModeInv ==
  ASSUME DockInv, NEW id, NEW mode \in Modes, SetMode(id, mode)
  PROVE  DockInv' /\ Fallback' = Fallback
<1>1. /\ outputs' = [i \in DOMAIN outputs |->
                       IF outputs[i].id = id THEN [outputs[i] EXCEPT !.mode_px = mode]
                       ELSE outputs[i]]
      /\ next_id' = next_id /\ given' = given
  BY DEF SetMode
<1>2. DOMAIN outputs = 1..Len(outputs)
  BY DockInvSays
<1>3. \A i \in 1..Len(outputs) :
        /\ [outputs[i] EXCEPT !.mode_px = mode] \in Built
        /\ [outputs[i] EXCEPT !.mode_px = mode].id = outputs[i].id
  BY DockInvSays DEF Built
<1>4. /\ outputs' \in Seq(Built) /\ Len(outputs') = Len(outputs)
      /\ \A i \in 1..Len(outputs) : outputs'[i].id = outputs[i].id
  BY <1>1, <1>2, <1>3, DockInvSays
<1> QED BY <1>1, <1>4, InPlaceInv, DockInvSays

\* Every step: the invariant, and what the two step properties promise.
LEMMA DockStep ==
  ASSUME DockInv, DockNext
  PROVE  /\ DockInv'
         /\ Fallback # {} /\ Fallback \subseteq Ids(outputs') => Fallback' = Fallback
<1>1. CASE \E mode \in Modes : AddOutput(mode)
  BY <1>1, AddOutputInv
<1>2. ASSUME NEW id \in 0..(MaxId - 1), NEW mode \in Modes, NEW s \in Scales,
             NEW t \in Transforms, NEW p \in Positions,
             Insert(At(WithTransform(WithScale(NewOutput(id, mode), s), t), p))
      PROVE  DockInv' /\ (Fallback # {} => Fallback' = Fallback)
  <2>1. s \in Int /\ Most(s, 1) \in Nat \ {0}
    BY DEF Most
  <2>2. NewOutput(id, mode) \in Built
    BY DEF NewOutput, Built, Transforms
  <2>3. WithScale(NewOutput(id, mode), s) \in Built
    BY <2>1, <2>2 DEF WithScale, Built
  <2>4. At(WithTransform(WithScale(NewOutput(id, mode), s), t), p) \in Built
    BY <2>3 DEF At, WithTransform, Built
  <2> QED BY <1>2, <2>4, InsertInv
<1>3. CASE \E id \in 0..MaxId : RemoveOutput(id)
  BY <1>3, RemoveOutputInv
<1>4. CASE \E id \in Ids(outputs), mode \in Modes : SetMode(id, mode)
  BY <1>4, SetModeInv
<1> QED BY <1>1, <1>2, <1>3, <1>4 DEF DockNext

THEOREM DockSpecInv == DockSpec => []DockInv
<1>1. DockInv /\ [DockNext]_dockVars => DockInv'
  <2> SUFFICES ASSUME DockInv, [DockNext]_dockVars PROVE DockInv'
    OBVIOUS
  <2>1. CASE UNCHANGED dockVars
    BY <2>1 DEF dockVars, DockInv, DockTypeOK, Ids
  <2> QED BY <2>1, DockStep
<1> QED BY <1>1, DockInitInv, PTL DEF DockSpec

\* output.rs:92-102: whatever was plugged, rotated and scaled, what is laid
\* out in logical units covers the framebuffer to within one of them.
THEOREM SizesAlwaysFit == DockSpec => []LogicalSizeFitsTheMode
<1>1. DockInv => LogicalSizeFitsTheMode
  <2> SUFFICES ASSUME DockInv PROVE LogicalSizeFitsTheMode
    OBVIOUS
  <2>1. \A i \in DOMAIN outputs : outputs[i] \in Built
    BY DockInvSays
  <2> QED BY <2>1, OutputFits DEF LogicalSizeFitsTheMode
<1> QED BY <1>1, DockSpecInv, PTL

\* output.rs:14-16 and 184-187: no handle is given out again, and only its own
\* removal makes the windows fall back to another output.
THEOREM DockStepsAreSound == DockSpec => HandlesAreFresh /\ FallbackStays
<1> DEFINE A == \A mode \in Modes : AddOutput(mode) => next_id \notin given
<1> DEFINE B == Fallback # {} /\ Fallback \subseteq Ids(outputs') => Fallback' = Fallback
<1>1. DockInv /\ [DockNext]_dockVars => [A]_dockVars
  BY AddOutputInv
<1>2. DockInv /\ [DockNext]_dockVars => [B]_dockVars
  BY DockStep
<1> HIDE DEF A, B
<1>3. DockSpec => [][A]_dockVars /\ [][B]_dockVars
  BY <1>1, <1>2, DockSpecInv, PTL DEF DockSpec
<1> QED BY <1>3 DEF HandlesAreFresh, FallbackStays, A, B

\* The whole collection, for any modes, scales and number of outputs.
THEOREM DockAlwaysSound == DockSpec => DockIsSound
<1>1. DockInv => DockTypeOK
  BY DEF DockInv
<1>2. DockSpec => [](DockTypeOK /\ LogicalSizeFitsTheMode)
  BY <1>1, DockSpecInv, SizesAlwaysFit, PTL
<1> QED BY <1>2, DockStepsAreSound DEF DockIsSound

----------------------------------------------------------------------------
(* Colours: a byte over a byte is a byte, and the two paths' formulas round *)
(* numbers that differ by less than one step.                               *)

\* A weight of a channel, and the rest of the weight of another.
LEMMA Weighted ==
  ASSUME NEW s \in Byte, NEW d \in Byte, NEW a \in Byte
  PROVE  /\ s * a \in Nat /\ d * (255 - a) \in Nat
         /\ s * a <= 255 * a /\ d * (255 - a) <= 255 * (255 - a)
<1>1. s \in Nat /\ d \in Nat /\ a \in Nat /\ 255 - a \in Nat /\ s <= 255 /\ d <= 255 /\ 255 \in Nat
  BY DEF Byte
<1>2. a * s \in Nat /\ a * s <= a * 255
  BY <1>1, ProductGrows
<1>3. (255 - a) * d \in Nat /\ (255 - a) * d <= (255 - a) * 255
  <2> DEFINE e == 255 - a
  <2>1. e \in Nat
    BY <1>1
  <2> HIDE DEF e
  <2>2. e * d \in Nat /\ e * d <= e * 255
    BY <1>1, <2>1, ProductGrows
  <2> QED BY <2>2 DEF e
<1> QED BY <1>1, <1>2, <1>3

\* A number that is at most 255 times 255 is rounded to a byte.
LEMMA Rounds ==
  ASSUME NEW n \in Nat, n <= 65025
  PROVE  (n + 127) \div 255 \in Byte
BY DEF Byte

\* Rounding keeps a difference of less than a step below two.
LEMMA RoundsNearby ==
  ASSUME NEW n \in Nat, NEW m \in Nat, n <= m + 254, m <= n + 254
  PROVE  (n + 127) \div 255 \in ((m + 127) \div 255 - 1)..((m + 127) \div 255 + 1)
OBVIOUS

\* un undoes a premultiplication to within half of the alpha.
LEMMA UnPremultiplied ==
  ASSUME NEW c \in Byte, NEW a \in 1..254, c <= a
  PROVE  LET s == (c * 255 + a \div 2) \div a
         IN  s \in Byte /\ s * a <= c * 255 + 127 /\ c * 255 <= s * a + 127
<1> DEFINE n == c * 255 + a \div 2
<1> DEFINE s == n \div a
<1>1. c \in Nat /\ a \in Nat \ {0} /\ n \in Nat /\ a \div 2 \in 0..127 /\ a <= 254
  BY DEF Byte
<1>2. s \in Nat /\ n % a \in 0..(a - 1) /\ n = a * s + (n % a) /\ a * s \in Nat
  <2> HIDE DEF n
  <2> QED BY <1>1, Division
<1>3. a - (a \div 2) <= 128
  BY <1>1
<1>4. n <= 255 * a + a \div 2 /\ 255 * a + a \div 2 < 256 * a
  BY <1>1
<1>5. s <= 255
  <2> SUFFICES ASSUME s >= 256 PROVE FALSE
    BY <1>2
  <2> HIDE DEF s
  <2>1. a * 256 <= a * s
    BY <1>1, <1>2, ProductGrows
  <2> HIDE DEF n
  <2> QED BY <1>1, <1>2, <1>4, <2>1
<1>6. s * a = a * s
  <2> HIDE DEF s
  <2> QED BY <1>1, <1>2
<1>7. a * s <= c * 255 + 127 /\ c * 255 <= a * s + 127
  <2>1. n - (n % a) = a * s
    BY <1>1, <1>2
  <2> HIDE DEF s
  <2> DEFINE r == n % a
  <2>2. r \in 0..(a - 1) /\ n - r = a * s
    BY <1>2, <2>1
  <2> HIDE DEF r
  <2> QED BY <1>1, <1>2, <1>3, <2>2
<1> QED BY <1>2, <1>5, <1>6, <1>7 DEF Byte

\* A premultiplied colour is the product to within half a step.
LEMMA Premultiplied ==
  ASSUME NEW c \in Byte, NEW a \in Byte
  PROVE  LET m == (c * a + 127) \div 255
         IN  m \in Byte /\ m * 255 <= c * a + 127 /\ c * a <= m * 255 + 127
<1>1. c * a \in Nat /\ c * a <= 65025
  <2>1. a \in Nat /\ a <= 255
    BY DEF Byte
  <2>2. c * a \in Nat /\ c * a <= 255 * a
    BY Weighted
  <2> QED BY <2>1, <2>2
<1> DEFINE n == c * a
<1>2. n \in Nat /\ n <= 65025
  BY <1>1
<1> HIDE DEF n
<1>3. LET m == (n + 127) \div 255
      IN  m \in Byte /\ m * 255 <= n + 127 /\ n <= m * 255 + 127
  BY <1>2 DEF Byte
<1> QED BY <1>3 DEF n

LEMMA BlendIsColour ==
  ASSUME NEW dst \in Colour, NEW src \in Colour
  PROVE  Blend(dst, src) \in Colour
<1>1. dst.c \in Byte /\ dst.a \in Byte /\ src.c \in Byte /\ src.a \in Byte
  BY DEF Colour
<1>2. ASSUME NEW s \in Byte, NEW d \in Byte, NEW a \in Byte PROVE Mix(s, d, a) \in Byte
  <2> DEFINE x == s * a
  <2> DEFINE y == d * (255 - a)
  <2>1. x \in Nat /\ y \in Nat /\ x <= 255 * a /\ y <= 255 * (255 - a)
    BY Weighted
  <2>2. a \in Nat /\ a <= 255
    BY DEF Byte
  <2> HIDE DEF x, y
  <2>3. x + y \in Nat /\ x + y <= 65025
    BY <2>1, <2>2
  <2>4. (x + y + 127) \div 255 \in Byte
    BY <2>3, Rounds
  <2> QED BY <2>4 DEF Mix, x, y
<1>3. 0 \in Byte
  BY DEF Byte
<1>4. Mix(src.c, dst.c, src.a) \in Byte /\ Mix(0, dst.a, src.a) \in Byte
  BY <1>1, <1>2, <1>3
<1>5. ASSUME NEW x \in Byte, NEW y \in Byte PROVE Least(x + y, 255) \in Byte
  BY DEF Least, Byte
<1>6. Least(src.a + Mix(0, dst.a, src.a), 255) \in Byte
  BY <1>1, <1>4, <1>5
<1> QED BY <1>4, <1>6 DEF Blend, Pixel, Colour

LEMMA StraightIsColour ==
  ASSUME NEW px \in Colour, NEW opaque
  PROVE  Straight(px, opaque) \in Colour
<1>1. px.c \in Byte /\ px.a \in Byte /\ 255 \in Byte /\ 0 \in Byte
  BY DEF Colour, Byte
<1>2. CASE opaque \/ px.a = 255
  BY <1>1, <1>2 DEF Straight, Pixel, Colour
<1>3. CASE ~(opaque \/ px.a = 255) /\ px.a = 0
  BY <1>1, <1>3 DEF Straight, Blank, Pixel, Colour
<1>4. CASE ~(opaque \/ px.a = 255) /\ px.a # 0
  <2> DEFINE n == px.c * 255 + px.a \div 2
  <2> DEFINE a == px.a
  <2>0. ASSUME NEW x \in Byte, NEW y \in Byte PROVE x * 255 + y \div 2 \in Nat
    BY DEF Byte
  <2>1. n \in Nat
    BY <1>1, <2>0
  <2>3. a \in Nat \ {0}
    BY <1>1, <1>4 DEF Byte
  <2> HIDE DEF n, a
  <2>2. n \div a \in Nat
    BY <2>1, <2>3, Division
  <2>4. Least(n \div a, 255) \in Byte
    BY <2>2 DEF Least, Byte
  <2>5. Straight(px, opaque) = Pixel(Least(n \div a, 255), px.a)
    BY <1>4 DEF Straight, n, a
  <2> QED BY <2>4, <2>5, <1>1 DEF Pixel, Colour
<1> QED BY <1>2, <1>3, <1>4

LEMMA GlBlendIsColour ==
  ASSUME NEW dst \in Colour, NEW px \in Colour
  PROVE  /\ GlBlend(dst, px) \in Colour
         /\ px.a = 255 => GlBlend(dst, px) = Pixel(px.c, 255)
<1>1. dst.c \in Byte /\ dst.a \in Byte /\ px.c \in Byte /\ px.a \in Byte
  BY DEF Colour
<1>2. ASSUME NEW s \in Byte, NEW d \in Byte, NEW a \in Byte
      PROVE  /\ Least((s * 255 + d * (255 - a) + 127) \div 255, 255) \in Byte
             /\ a = 255 => Least((s * 255 + d * (255 - a) + 127) \div 255, 255) = s
  <2> DEFINE e == d * (255 - a)
  <2>1. e \in Nat /\ (a = 255 => e = 0)
    <3>1. e \in Nat
      BY Weighted
    <3>2. d \in Nat /\ d * (255 - 255) = 0
      BY DEF Byte
    <3> QED BY <3>1, <3>2
  <2> HIDE DEF e
  <2>2. /\ Least((s * 255 + e + 127) \div 255, 255) \in Byte
        /\ a = 255 => Least((s * 255 + e + 127) \div 255, 255) = s
    BY <2>1 DEF Least, Byte
  <2> QED BY <2>2 DEF e
<1> QED BY <1>1, <1>2 DEF GlBlend, Pixel, Colour

LEMMA PremultiplyIsColour ==
  ASSUME NEW px \in Colour
  PROVE  Premultiply(px) \in Colour
<1>1. px.c \in Byte /\ px.a \in Byte
  BY DEF Colour
<1>2. (px.c * px.a + 127) \div 255 \in Byte
  BY <1>1, Premultiplied
<1> QED BY <1>1, <1>2 DEF Premultiply, Pixel, Colour

\* Over an opaque pixel both paths show a client's honest pixel alike, to
\* within a step.
LEMMA ClientPixelsAgree ==
  ASSUME NEW base \in Colour, NEW px \in Colour, px.c <= px.a, NEW opaque \in BOOLEAN
  PROVE  Blend(base, Straight(px, opaque)).c
           \in (GlBlend(base, IF opaque THEN Pixel(px.c, 255) ELSE px).c - 1)
                 ..(GlBlend(base, IF opaque THEN Pixel(px.c, 255) ELSE px).c + 1)
<1> DEFINE c == px.c
<1> DEFINE a == px.a
<1> DEFINE d == base.c
<1>1. c \in Byte /\ a \in Byte /\ d \in Byte /\ c <= a /\ 255 \in Byte
  BY DEF Colour, Byte
<1>2. CASE opaque \/ a = 255
  <2>1. Straight(px, opaque) = Pixel(c, 255)
    BY <1>2 DEF Straight
  <2>2. Blend(base, Straight(px, opaque)).c = c
    BY <2>1 DEF Blend, Pixel
  <2> DEFINE q == IF opaque THEN Pixel(px.c, 255) ELSE px
  <2>3. q \in Colour /\ q.a = 255 /\ q.c = c
    BY <1>1, <1>2 DEF Pixel, Colour
  <2> HIDE DEF q
  <2>4. GlBlend(base, q).c = c
    <3>1. GlBlend(base, q) = Pixel(q.c, 255)
      BY <2>3, GlBlendIsColour
    <3> QED BY <2>3, <3>1 DEF Pixel
  <2>5. c \in (c - 1)..(c + 1)
    BY <1>1 DEF Byte
  <2> QED BY <2>2, <2>4, <2>5 DEF q
<1>3. CASE ~opaque /\ a # 255
  <2> DEFINE e == d * (255 - a)
  <2> DEFINE s == (c * 255 + a \div 2) \div a
  <2> DEFINE w == IF a = 0 THEN 0 ELSE s * a
  <2>1. e \in Nat /\ e <= 255 * (255 - a)
    BY <1>1, Weighted
  <2>2. GlBlend(base, px).c = Least((c * 255 + e + 127) \div 255, 255)
    BY DEF GlBlend, Pixel
  <2>3. w \in Nat /\ w <= c * 255 + 127 /\ c * 255 <= w + 127 /\ w <= 255 * a
    <3>1. CASE a = 0
      BY <3>1, <1>1 DEF Byte
    <3>2. CASE a # 0
      <4>1. a \in 1..254
        BY <3>2, <1>1, <1>3 DEF Byte
      <4>2. s \in Byte /\ s * a <= c * 255 + 127 /\ c * 255 <= s * a + 127
        BY <1>1, <4>1, UnPremultiplied
      <4> HIDE DEF s
      <4>3. s * a \in Nat /\ s * a <= 255 * a
        BY <4>2, <1>1, Weighted
      <4> QED BY <4>2, <4>3, <3>2
    <3> QED BY <3>1, <3>2
  <2>4. Blend(base, Straight(px, opaque)).c = (w + e + 127) \div 255
    <3>1. CASE a = 0
      <4>1. Straight(px, opaque) = Pixel(0, 0)
        BY <3>1, <1>3 DEF Straight, Blank
      <4>2. Blend(base, Pixel(0, 0)).c = Mix(0, d, 0)
        BY DEF Blend, Pixel
      <4>3. d \in Nat /\ e = d * 255 /\ Mix(0, d, 0) = (0 + e + 127) \div 255
        BY <3>1, <1>1 DEF Mix, Byte
      <4> QED BY <4>1, <4>2, <4>3, <3>1
    <3>2. CASE a # 0
      <4>1. a \in 1..254
        BY <3>2, <1>1, <1>3 DEF Byte
      <4>2. s \in Byte
        BY <1>1, <4>1, UnPremultiplied
      <4>3. Straight(px, opaque) = Pixel(Least(s, 255), a)
        BY <3>2, <1>3 DEF Straight
      <4> HIDE DEF s
      <4>4. Straight(px, opaque) = Pixel(s, a)
        BY <4>2, <4>3 DEF Least, Byte
      <4>5. Blend(base, Pixel(s, a)).c = (s * a + e + 127) \div 255
        BY <1>3 DEF Blend, Pixel, Mix
      <4> QED BY <4>4, <4>5, <3>2
    <3> QED BY <3>1, <3>2
  <2> HIDE DEF e, w
  <2>5. /\ (w + e + 127) \div 255 \in ((c * 255 + e + 127) \div 255 - 1)..((c * 255 + e + 127) \div 255 + 1)
        /\ (c * 255 + e + 127) \div 255 <= 255
    <3>1. c \in Nat /\ a \in Nat /\ a <= 255
      BY <1>1 DEF Byte
    <3> HIDE DEF c, a
    <3>2. c * 255 + e <= 65025 /\ c * 255 \in Nat
      BY <1>1, <2>1, <3>1
    <3> QED BY <3>2, <2>1, <2>3
  <2>6. Least((c * 255 + e + 127) \div 255, 255) = (c * 255 + e + 127) \div 255
    BY <2>5, <2>1, <1>1 DEF Least, Byte
  <2> QED BY <2>2, <2>4, <2>5, <2>6, <1>3
<1> QED BY <1>2, <1>3

\* Over one pixel both paths show a glyph alike, to within a step.
LEMMA GlyphPixelsAgree ==
  ASSUME NEW base \in Colour, NEW px \in Colour
  PROVE  Blend(base, px).c \in (GlBlend(base, Premultiply(px)).c - 1)
                                 ..(GlBlend(base, Premultiply(px)).c + 1)
<1> DEFINE c == px.c
<1> DEFINE a == px.a
<1> DEFINE d == base.c
<1>1. c \in Byte /\ a \in Byte /\ d \in Byte
  BY DEF Colour
<1>2. CASE a = 255
  <2>1. Premultiply(px) = px /\ Blend(base, px) = px
    BY <1>2 DEF Premultiply, Blend
  <2>2. GlBlend(base, px).c = c
    <3>1. GlBlend(base, px) = Pixel(c, 255)
      BY <1>2, GlBlendIsColour
    <3> QED BY <3>1 DEF Pixel
  <2> QED BY <2>1, <2>2, <1>1 DEF Byte
<1>3. CASE a # 255
  <2> DEFINE m == (c * a + 127) \div 255
  <2> DEFINE n == c * a
  <2> DEFINE e == d * (255 - a)
  <2>1. /\ n \in Nat /\ n <= 255 * a /\ e \in Nat /\ e <= 255 * (255 - a)
        /\ m \in Byte /\ m * 255 <= n + 127 /\ n <= m * 255 + 127
    <3>1. n \in Nat /\ n <= 255 * a /\ e \in Nat /\ e <= 255 * (255 - a)
      BY <1>1, Weighted
    <3>2. m \in Byte /\ m * 255 <= n + 127 /\ n <= m * 255 + 127
      BY <1>1, Premultiplied
    <3> QED BY <3>1, <3>2
  <2>2. Blend(base, px).c = (n + e + 127) \div 255
    BY <1>3 DEF Blend, Mix, Pixel
  <2>3. GlBlend(base, Premultiply(px)).c = Least((m * 255 + e + 127) \div 255, 255)
    BY <1>3 DEF GlBlend, Premultiply, Pixel
  <2> HIDE DEF m, n, e
  <2>4. m <= 255 /\ a \in Nat /\ a <= 255 /\ m \in Nat
    BY <1>1, <2>1 DEF Byte
  <2> HIDE DEF a, c
  <2>5. /\ (n + e + 127) \div 255 \in ((m * 255 + e + 127) \div 255 - 1)..((m * 255 + e + 127) \div 255 + 1)
        /\ (n + e + 127) \div 255 \in 0..255
    BY <2>1, <2>4
  <2>6. (m * 255 + e + 127) \div 255 <= 255 \/ Least((m * 255 + e + 127) \div 255, 255) = 255
    BY <2>1, <2>4 DEF Least
  <2>7. (n + e + 127) \div 255 \in (Least((m * 255 + e + 127) \div 255, 255) - 1)
                                     ..(Least((m * 255 + e + 127) \div 255, 255) + 1)
    BY <2>1, <2>4, <2>5 DEF Least
  <2> QED BY <2>2, <2>3, <2>7
<1> QED BY <1>2, <1>3

----------------------------------------------------------------------------
(* Pictures, pixel by pixel                                                *)

\* What a frame may be drawn from.
Drawable == [size : [w : Nat, h : Nat], theme : [background : Colour, panel : Colour, text : Byte],
             buffer : ClientBuffer]

Slot(in) == Surface(TileOf(in.size), in.buffer)

TextAt(in) == Point(in.size.w - 2, in.size.h - 1)

InPanel(in, p) == p.y = in.size.h - 1

Glyph(in, p) == Pixel(in.theme.text, Glyphs[Less(p, TextAt(in))])

OnGlyph(in, p) == Less(p, TextAt(in)) \in DOMAIN Glyphs

\* What the CPU path makes of a pixel, layer by layer.
CpuClientAt(in, p) ==
  LET q == Offset(Less(p, Slot(in).rect), Skip(Slot(in)))
  IN  IF Readable(in.buffer) /\ Shows(Slot(in), q)
      THEN Blend(in.theme.background, Straight(Content(in.buffer, q), in.buffer.format = "xrgb"))
      ELSE in.theme.background

CpuPanelAt(in, p) == IF InPanel(in, p) THEN in.theme.panel ELSE CpuClientAt(in, p)

CpuAt(in, p) ==
  IF OnGlyph(in, p) THEN Blend(CpuPanelAt(in, p), Glyph(in, p)) ELSE CpuPanelAt(in, p)

\* What the GL path makes of it, over an opaque background.
GlClientAt(in, p) ==
  LET px == Content(in.buffer, Offset(Less(p, Slot(in).rect), Slot(in).src))
  IN  IF Imported(in.buffer) /\ ContainsPoint(Visible(Slot(in)), p)
      THEN GlBlend(in.theme.background, IF in.buffer.format = "xrgb" THEN Pixel(px.c, 255) ELSE px)
      ELSE in.theme.background

GlPanelAt(in, p) ==
  IF InPanel(in, p) THEN GlBlend(GlClientAt(in, p), in.theme.panel) ELSE GlClientAt(in, p)

GlAt(in, p) ==
  IF OnGlyph(in, p) THEN GlBlend(GlPanelAt(in, p), Premultiply(Glyph(in, p))) ELSE GlPanelAt(in, p)

\* The four items of the list, one after the other.
LEMMA CpuUnrolled ==
  ASSUME NEW pixels, NEW in
  PROVE  CpuPicture(pixels, in) =
           Paint(Paint(Paint(Paint(pixels, ListOf(in)[1]), ListOf(in)[2]), ListOf(in)[3]), ListOf(in)[4])
<1> DEFINE list == ListOf(in)
<1> DEFINE Step(f, i) == IF i = 0 THEN pixels ELSE Paint(f[i - 1], list[i])
<1> DEFINE a1 == Paint(pixels, list[1])
<1> DEFINE a2 == Paint(a1, list[2])
<1> DEFINE a3 == Paint(a2, list[3])
<1> DEFINE a4 == Paint(a3, list[4])
<1> DEFINE g == [i \in 0..4 |-> IF i = 0 THEN pixels ELSE IF i = 1 THEN a1 ELSE IF i = 2 THEN a2
                                 ELSE IF i = 3 THEN a3 ELSE a4]
<1>1. Len(list) = 4
  BY DEF ListOf
<1> HIDE DEF list
<1>2. g = [i \in 0..4 |-> Step(g, i)]
  <2> HIDE DEF a1, a2, a3, a4
  <2>1. g[0] = pixels /\ g[1] = a1 /\ g[2] = a2 /\ g[3] = a3 /\ g[4] = a4
    OBVIOUS
  <2>2. ASSUME NEW i \in 0..4 PROVE g[i] = Step(g, i)
    <3> HIDE DEF g
    <3>1. i \in {0, 1, 2, 3, 4}
      OBVIOUS
    <3> QED BY <3>1, <2>1 DEF a1, a2, a3, a4
  <2> QED BY <2>2
<1> DEFINE h == CHOOSE f : f = [i \in 0..Len(list) |-> Step(f, i)]
<1>3. h = [i \in 0..4 |-> Step(h, i)]
  <2> HIDE DEF g
  <2> QED BY <1>1, <1>2
<1>4. CpuPicture(pixels, in) = h[4]
  BY <1>1 DEF CpuPicture, list
<1> HIDE DEF h
<1>5. h[0] = pixels /\ h[1] = Paint(h[0], list[1]) /\ h[2] = Paint(h[1], list[2])
        /\ h[3] = Paint(h[2], list[3]) /\ h[4] = Paint(h[3], list[4])
  BY <1>3
<1> QED BY <1>4, <1>5 DEF list

LEMMA GlUnrolled ==
  ASSUME NEW picture, NEW in
  PROVE  LET list == ListOf(in)
             tex  == TexturesOf(list)
         IN  GlPicture(picture, in) =
               DrawItem(DrawItem(DrawItem(DrawItem(picture, list[1], tex[1]), list[2], tex[2]),
                                 list[3], tex[3]), list[4], tex[4])
<1> DEFINE list == ListOf(in)
<1> DEFINE tex == TexturesOf(list)
<1> DEFINE Step(f, i) == IF i = 0 THEN picture ELSE DrawItem(f[i - 1], list[i], tex[i])
<1> DEFINE a1 == DrawItem(picture, list[1], tex[1])
<1> DEFINE a2 == DrawItem(a1, list[2], tex[2])
<1> DEFINE a3 == DrawItem(a2, list[3], tex[3])
<1> DEFINE a4 == DrawItem(a3, list[4], tex[4])
<1> DEFINE g == [i \in 0..4 |-> IF i = 0 THEN picture ELSE IF i = 1 THEN a1 ELSE IF i = 2 THEN a2
                                 ELSE IF i = 3 THEN a3 ELSE a4]
<1>1. Len(list) = 4
  BY DEF ListOf
<1> HIDE DEF list, tex
<1>2. g = [i \in 0..4 |-> Step(g, i)]
  <2> HIDE DEF a1, a2, a3, a4
  <2>1. g[0] = picture /\ g[1] = a1 /\ g[2] = a2 /\ g[3] = a3 /\ g[4] = a4
    OBVIOUS
  <2>2. ASSUME NEW i \in 0..4 PROVE g[i] = Step(g, i)
    <3> HIDE DEF g
    <3>1. i \in {0, 1, 2, 3, 4}
      OBVIOUS
    <3> QED BY <3>1, <2>1 DEF a1, a2, a3, a4
  <2> QED BY <2>2
<1> DEFINE h == CHOOSE f : f = [i \in 0..Len(list) |-> Step(f, i)]
<1>3. h = [i \in 0..4 |-> Step(h, i)]
  <2> HIDE DEF g
  <2> QED BY <1>1, <1>2
<1>4. GlPicture(picture, in) = h[4]
  BY <1>1 DEF GlPicture, list, tex
<1> HIDE DEF h
<1>5. h[0] = picture /\ h[1] = DrawItem(h[0], list[1], tex[1]) /\ h[2] = DrawItem(h[1], list[2], tex[2])
        /\ h[3] = DrawItem(h[2], list[3], tex[3]) /\ h[4] = DrawItem(h[3], list[4], tex[4])
  BY <1>3
<1> QED BY <1>4, <1>5 DEF list, tex

\* The desktop covers the window, and the panel is its last row.
LEMMA RowsAndColumns ==
  ASSUME NEW s \in [w : Nat, h : Nat], NEW p \in Points(s)
  PROVE  /\ p = Point(p.x, p.y) /\ p.x \in 0..(s.w - 1) /\ p.y \in 0..(s.h - 1)
         /\ ContainsPoint(Rect(0, 0, s.w, s.h), p)
         /\ ContainsPoint(Rect(0, s.h - 1, s.w, 1), p) <=> p.y = s.h - 1
<1>1. PICK x \in 0..(s.w - 1), y \in 0..(s.h - 1) : p = Point(x, y)
  BY DEF Points
<1>2. p.x = x /\ p.y = y
  BY <1>1 DEF Point
<1> QED BY <1>1, <1>2 DEF ContainsPoint, Rect, Right, Bottom

LEMMA CpuIsPointwise ==
  ASSUME NEW in \in Drawable, NEW pixels, DOMAIN pixels = Points(in.size)
  PROVE  CpuPicture(pixels, in) = [p \in Points(in.size) |-> CpuAt(in, p)]
<1> DEFINE P == Points(in.size)
<1> DEFINE s == in.size
<1> DEFINE a1 == [p \in P |-> in.theme.background]
<1> DEFINE a2 == [p \in P |-> CpuClientAt(in, p)]
<1> DEFINE a3 == [p \in P |-> CpuPanelAt(in, p)]
<1> DEFINE a4 == [p \in P |-> CpuAt(in, p)]
<1>0. s \in [w : Nat, h : Nat]
  BY DEF Drawable
<1>1. Paint(pixels, ListOf(in)[1]) = a1
  <2>1. Paint(pixels, ListOf(in)[1]) = FillRect(pixels, Rect(0, 0, s.w, s.h), in.theme.background)
    BY DEF Paint, ListOf, Fill
  <2>2. \A p \in P : ContainsPoint(Rect(0, 0, s.w, s.h), p)
    BY <1>0, RowsAndColumns
  <2> QED BY <2>1, <2>2 DEF FillRect
<1>2. Paint(a1, ListOf(in)[2]) = a2
  <2>1. Paint(a1, ListOf(in)[2]) = BlendClient(a1, Slot(in))
    BY DEF Paint, ListOf, Surface, Slot
  <2>2. Slot(in).buffer = in.buffer
    BY DEF Slot, Surface
  <2>3. \A p \in P : a1[p] = in.theme.background
    OBVIOUS
  <2>4. DOMAIN a1 = P
    OBVIOUS
  <2> HIDE DEF a1, P
  <2>5. CASE ~Readable(in.buffer)
    <3>1. BlendClient(a1, Slot(in)) = a1
      BY <2>2, <2>5 DEF BlendClient
    <3>2. \A p \in P : CpuClientAt(in, p) = in.theme.background
      BY <2>5 DEF CpuClientAt
    <3> QED BY <2>1, <3>1, <3>2 DEF a1
  <2>6. CASE Readable(in.buffer)
    <3>1. BlendClient(a1, Slot(in)) = [p \in P |-> CpuClientAt(in, p)]
      BY <2>2, <2>3, <2>4, <2>6 DEF BlendClient, CpuClientAt
    <3> QED BY <2>1, <3>1
  <2> QED BY <2>5, <2>6
<1>3. Paint(a2, ListOf(in)[3]) = a3
  <2>1. Paint(a2, ListOf(in)[3]) = FillRect(a2, Rect(0, s.h - 1, s.w, 1), in.theme.panel)
    BY DEF Paint, ListOf, Fill
  <2>2. \A p \in P : ContainsPoint(Rect(0, s.h - 1, s.w, 1), p) <=> InPanel(in, p)
    BY <1>0, RowsAndColumns DEF InPanel
  <2>3. DOMAIN a2 = P /\ \A p \in P : a2[p] = CpuClientAt(in, p)
    OBVIOUS
  <2> HIDE DEF a2, P
  <2> QED BY <2>1, <2>2, <2>3 DEF FillRect, CpuPanelAt
<1>4. Paint(a3, ListOf(in)[4]) = a4
  <2> DEFINE image == Image(TextAt(in), in.theme.text, Glyphs)
  <2>1. Paint(a3, ListOf(in)[4]) = BlendImage(a3, image)
    BY DEF Paint, ListOf, Image, TextAt
  <2>2. /\ image.at = TextAt(in) /\ DOMAIN image.pixels = DOMAIN Glyphs
        /\ \A q \in DOMAIN Glyphs : image.pixels[q] = Pixel(in.theme.text, Glyphs[q])
    BY DEF Image
  <2>3. DOMAIN a3 = P /\ \A p \in P : a3[p] = CpuPanelAt(in, p)
    OBVIOUS
  <2> HIDE DEF a3, P, image
  <2> QED BY <2>1, <2>2, <2>3 DEF BlendImage, CpuAt, OnGlyph, Glyph
<1> HIDE DEF a1, a2, a3, a4
<1> QED BY <1>1, <1>2, <1>3, <1>4, CpuUnrolled DEF a4

\* An item is not the absence of a texture.
LEMMA ItemsAreThere ==
  ASSUME NEW in
  PROVE  Slot(in) # << >> /\ Image(TextAt(in), in.theme.text, Glyphs) # << >>
<1>1. DOMAIN << >> = {}
  OBVIOUS
<1>2. "kind" \in DOMAIN Slot(in)
  BY DEF Slot, Surface
<1>3. "kind" \in DOMAIN Image(TextAt(in), in.theme.text, Glyphs)
  BY DEF Image
<1> QED BY <1>1, <1>2, <1>3

LEMMA GlIsPointwise ==
  ASSUME NEW in \in Drawable, in.theme.background.a = 255,
         NEW picture \in [Points(in.size) -> Colour]
  PROVE  GlPicture(picture, in) = [p \in Points(in.size) |-> GlAt(in, p)]
<1> DEFINE P == Points(in.size)
<1> DEFINE s == in.size
<1> DEFINE a1 == [p \in P |-> in.theme.background]
<1> DEFINE a2 == [p \in P |-> GlClientAt(in, p)]
<1> DEFINE a3 == [p \in P |-> GlPanelAt(in, p)]
<1> DEFINE a4 == [p \in P |-> GlAt(in, p)]
<1> DEFINE list == ListOf(in)
<1> DEFINE tex == TexturesOf(list)
<1>0. s \in [w : Nat, h : Nat] /\ in.theme.background \in Colour
  BY DEF Drawable
<1>5. /\ list[1] = Fill(Rect(0, 0, s.w, s.h), in.theme.background)
      /\ list[2] = Slot(in)
      /\ list[3] = Fill(Rect(0, s.h - 1, s.w, 1), in.theme.panel)
      /\ list[4] = Image(TextAt(in), in.theme.text, Glyphs)
      /\ DOMAIN list = 1..4
  BY DEF ListOf, Slot, TextAt
<1>6. tex[2] = Slot(in) /\ tex[4] = Image(TextAt(in), in.theme.text, Glyphs)
  <2>1. Slot(in).kind # "fill" /\ Image(TextAt(in), in.theme.text, Glyphs).kind # "fill"
    BY DEF Slot, Surface, Image
  <2> HIDE DEF list
  <2> QED BY <1>5, <2>1 DEF TexturesOf
<1> HIDE DEF list, tex
<1>1. DrawItem(picture, list[1], tex[1]) = a1
  <2>1. DrawItem(picture, list[1], tex[1])
          = DrawFill(picture, Fill(Rect(0, 0, s.w, s.h), in.theme.background))
    BY <1>5 DEF DrawItem, Fill
  <2>2. \A p \in P : ContainsPoint(Rect(0, 0, s.w, s.h), p)
    BY <1>0, RowsAndColumns
  <2>3. in.theme.background = Pixel(in.theme.background.c, 255)
    BY <1>0 DEF Colour, Pixel
  <2>4. \A p \in P : GlBlend(picture[p], in.theme.background) = in.theme.background
    BY <1>0, <2>3, GlBlendIsColour
  <2>5. DOMAIN picture = P
    OBVIOUS
  <2> HIDE DEF P
  <2> QED BY <2>1, <2>2, <2>4, <2>5 DEF DrawFill, Fill
<1>2. DrawItem(a1, list[2], tex[2]) = a2
  <2>1. DrawItem(a1, list[2], tex[2]) = DrawClient(a1, Slot(in))
    <3>1. Slot(in).kind = "surface"
      BY DEF Slot, Surface
    <3> HIDE DEF a1
    <3> QED BY <1>5, <1>6, <3>1, ItemsAreThere DEF DrawItem
  <2>2. Slot(in).buffer = in.buffer
    BY DEF Slot, Surface
  <2>3. DOMAIN a1 = P /\ \A p \in P : a1[p] = in.theme.background
    OBVIOUS
  <2> HIDE DEF a1, P
  <2>5. CASE ~Imported(in.buffer)
    <3>1. DrawClient(a1, Slot(in)) = a1
      BY <2>2, <2>5 DEF DrawClient
    <3>2. \A p \in P : GlClientAt(in, p) = in.theme.background
      BY <2>5 DEF GlClientAt
    <3> QED BY <2>1, <3>1, <3>2 DEF a1
  <2>6. CASE Imported(in.buffer)
    <3>1. DrawClient(a1, Slot(in)) = [p \in P |-> GlClientAt(in, p)]
      BY <2>2, <2>3, <2>6 DEF DrawClient, GlClientAt
    <3> QED BY <2>1, <3>1
  <2> QED BY <2>5, <2>6
<1>3. DrawItem(a2, list[3], tex[3]) = a3
  <2>1. DrawItem(a2, list[3], tex[3])
          = DrawFill(a2, Fill(Rect(0, s.h - 1, s.w, 1), in.theme.panel))
    BY <1>5 DEF DrawItem, Fill
  <2>2. \A p \in P : ContainsPoint(Rect(0, s.h - 1, s.w, 1), p) <=> InPanel(in, p)
    BY <1>0, RowsAndColumns DEF InPanel
  <2>3. DOMAIN a2 = P /\ \A p \in P : a2[p] = GlClientAt(in, p)
    OBVIOUS
  <2> HIDE DEF a2, P
  <2> QED BY <2>1, <2>2, <2>3 DEF DrawFill, Fill, GlPanelAt
<1>4. DrawItem(a3, list[4], tex[4]) = a4
  <2> DEFINE image == Image(TextAt(in), in.theme.text, Glyphs)
  <2>1. DrawItem(a3, list[4], tex[4]) = DrawImage(a3, image, image)
    <3>1. image.kind = "image"
      BY DEF Image
    <3>2. image # << >>
      BY ItemsAreThere
    <3> HIDE DEF a3, image
    <3> QED BY <1>5, <1>6, <3>1, <3>2 DEF DrawItem, image
  <2>2. /\ image.at = TextAt(in) /\ DOMAIN image.pixels = DOMAIN Glyphs
        /\ \A q \in DOMAIN Glyphs : image.pixels[q] = Pixel(in.theme.text, Glyphs[q])
    BY DEF Image
  <2>3. DOMAIN a3 = P /\ \A p \in P : a3[p] = GlPanelAt(in, p)
    OBVIOUS
  <2> HIDE DEF a3, P, image
  <2> QED BY <2>1, <2>2, <2>3 DEF DrawImage, GlAt, OnGlyph, Glyph
<1> HIDE DEF a1, a2, a3, a4
<1> QED BY <1>1, <1>2, <1>3, <1>4, GlUnrolled DEF a4, list, tex

----------------------------------------------------------------------------
(* The client's part of a pixel                                            *)

LEMMA SlotIs ==
  ASSUME NEW in \in Drawable
  PROVE  /\ Slot(in).rect = [x |-> 1, y |-> 0, w |-> in.size.w - 2, h |-> in.size.h - 1]
         /\ Slot(in).buffer = in.buffer
         /\ Slot(in).src = [x |-> Most(in.buffer.geometry.x, 0), y |-> Most(in.buffer.geometry.y, 0)]
         /\ in.size.w \in Nat /\ in.size.h \in Nat
         /\ in.buffer.w \in Int /\ in.buffer.h \in Int
         /\ in.buffer.geometry.x \in Int /\ in.buffer.geometry.y \in Int
         /\ Slot(in).src.x \in Nat /\ Slot(in).src.x >= in.buffer.geometry.x
         /\ Slot(in).src.y \in Nat /\ Slot(in).src.y >= in.buffer.geometry.y
BY DEF Slot, Surface, TileOf, Rect, BufferOffset, Point, Drawable, ClientBuffer, Most

\* From the window's edge on, where nothing is left of it below zero.
LEMMA FromTheEdge ==
  ASSUME NEW u \in Nat, NEW w \in Int, NEW x \in Int
  PROVE  (x \in 0..(w - 1) /\ x >= Least(u, w)) <=> (Least(u, w) <= x /\ x < w)
BY DEF Least

\* The pixels of a buffer that are looked at.
LEMMA LookedAt ==
  ASSUME NEW in \in Drawable, NEW x \in Int, NEW y \in Int
  PROVE  Point(x, y) \in Looked(Slot(in)) <=>
           /\ Least(Slot(in).src.x, in.buffer.w) <= x /\ x < in.buffer.w
           /\ Least(Slot(in).src.y, in.buffer.h) <= y /\ y < in.buffer.h
<1> DEFINE b == in.buffer
<1> DEFINE k == Skip(Slot(in))
<1> DEFINE u == Slot(in).src.x
<1> DEFINE v == Slot(in).src.y
<1>1. k.x = Least(u, b.w) /\ k.y = Least(v, b.h)
  BY SlotIs DEF Skip, Point
<1>2. u \in Nat /\ v \in Nat /\ b.w \in Int /\ b.h \in Int
  BY SlotIs
<1>3. Looked(Slot(in)) = {q \in Points(b) : q.x >= k.x /\ q.y >= k.y}
  BY SlotIs DEF Looked
<1>4. Point(x, y) \in Points(b) <=> x \in 0..(b.w - 1) /\ y \in 0..(b.h - 1)
  <2>1. \A m, n : Point(m, n) = Point(x, y) => m = x /\ n = y
    BY DEF Point
  <2> QED BY <2>1 DEF Points
<1>5. Point(x, y).x = x /\ Point(x, y).y = y
  BY DEF Point
<1> HIDE DEF b, k, u, v
<1>6. Point(x, y) \in Looked(Slot(in)) <=>
        x \in 0..(b.w - 1) /\ y \in 0..(b.h - 1) /\ x >= k.x /\ y >= k.y
  BY <1>3, <1>4, <1>5
<1>7. (x \in 0..(b.w - 1) /\ x >= k.x) <=> (Least(u, b.w) <= x /\ x < b.w)
  BY <1>1, <1>2, FromTheEdge
<1>8. (y \in 0..(b.h - 1) /\ y >= k.y) <=> (Least(v, b.h) <= y /\ y < b.h)
  BY <1>1, <1>2, FromTheEdge
<1> QED BY <1>6, <1>7, <1>8 DEF b, u, v

\* Both paths show the same part of a client's buffer, on its tile: pixels of
\* the window, never of the shadow around it.
LEMMA SameWindow ==
  ASSUME NEW in \in Drawable, NEW p \in Points(in.size)
  PROVE  LET q == Offset(Less(p, Slot(in).rect), Skip(Slot(in)))
             r == Offset(Less(p, Slot(in).rect), Slot(in).src)
         IN  /\ Shows(Slot(in), q) <=> ContainsPoint(Visible(Slot(in)), p)
             /\ Shows(Slot(in), q) => /\ ContainsPoint(TileOf(in.size), p)
                                      /\ Content(in.buffer, q) = in.buffer.body
                                      /\ Content(in.buffer, r) = in.buffer.body
<1> DEFINE b == in.buffer
<1> DEFINE rect == Slot(in).rect
<1> DEFINE src == Slot(in).src
<1> DEFINE k == Skip(Slot(in))
<1> DEFINE q == Offset(Less(p, rect), k)
<1> DEFINE r == Offset(Less(p, rect), src)
<1> DEFINE s == in.size
<1>0. /\ s \in [w : Nat, h : Nat] /\ s.w \in Nat /\ s.h \in Nat
      /\ b.w \in Int /\ b.h \in Int /\ b.geometry.x \in Int /\ b.geometry.y \in Int
      /\ src.x \in Nat /\ src.x >= b.geometry.x /\ src.y \in Nat /\ src.y >= b.geometry.y
      /\ rect = [x |-> 1, y |-> 0, w |-> s.w - 2, h |-> s.h - 1]
      /\ Slot(in).buffer = b
  BY SlotIs DEF Drawable
<1>1. p = Point(p.x, p.y) /\ p.x \in 0..(s.w - 1) /\ p.y \in 0..(s.h - 1)
  BY <1>0, RowsAndColumns
<1>2. k = Point(Least(src.x, b.w), Least(src.y, b.h)) /\ k.x = Least(src.x, b.w) /\ k.y = Least(src.y, b.h)
  BY <1>0 DEF Skip, Point
<1>3. q = Point(p.x - 1 + k.x, p.y + k.y) /\ q.x = p.x - 1 + k.x /\ q.y = p.y + k.y
  BY <1>0, <1>1, <1>2 DEF Offset, Less, Point, Least
<1>4. r.x = p.x - 1 + src.x /\ r.y = p.y + src.y
  BY <1>0, <1>1 DEF Offset, Less, Point
<1>5. k.x \in Int /\ k.y \in Int
  BY <1>0, <1>2 DEF Least
<1>6. Offset(Less(q, k), rect) = p
  <2>1. Less(q, k) = Point(p.x - 1, p.y)
    BY <1>1, <1>3, <1>5 DEF Less, Point
  <2>2. Offset(Point(p.x - 1, p.y), rect) = Point(p.x, p.y)
    BY <1>0, <1>1 DEF Offset, Point
  <2> QED BY <1>1, <2>1, <2>2
<1>7. q \in Looked(Slot(in)) <=> /\ k.x <= p.x - 1 + k.x /\ p.x - 1 + k.x < b.w
                                 /\ k.y <= p.y + k.y /\ p.y + k.y < b.h
  <2>1. p.x - 1 + k.x \in Int /\ p.y + k.y \in Int
    BY <1>1, <1>5
  <2> QED BY <1>2, <1>3, <2>1, LookedAt
<1>8. ContainsPoint(rect, p) <=> 1 <= p.x /\ p.x < s.w - 1 /\ p.y < s.h - 1
  BY <1>0, <1>1 DEF ContainsPoint, Right, Bottom
<1>9. ContainsPoint(Visible(Slot(in)), p) <=>
        1 <= p.x /\ p.x < 1 + Least(b.w - src.x, s.w - 2) /\ p.y < Least(b.h - src.y, s.h - 1)
  BY <1>0, <1>1 DEF Visible, ContainsPoint, Right, Bottom, Rect, Least
<1>10. Shows(Slot(in), q) <=> q \in Looked(Slot(in)) /\ ContainsPoint(rect, p)
  BY <1>6 DEF Shows
<1>11. rect = TileOf(in.size)
  BY DEF Slot, Surface
<1> HIDE DEF q, r, k, src, rect, b, s
<1>12. Shows(Slot(in), q) <=> ContainsPoint(Visible(Slot(in)), p)
  BY <1>0, <1>1, <1>2, <1>5, <1>7, <1>8, <1>9, <1>10 DEF Least
<1>13. Shows(Slot(in), q) => q.x >= b.geometry.x /\ q.y >= b.geometry.y
                             /\ r.x >= b.geometry.x /\ r.y >= b.geometry.y
                             /\ q.x \in Int /\ q.y \in Int /\ r.x \in Int /\ r.y \in Int
  BY <1>0, <1>1, <1>2, <1>3, <1>4, <1>5, <1>7, <1>8, <1>10 DEF Least
<1>14. Shows(Slot(in), q) => Content(b, q) = b.body /\ Content(b, r) = b.body
  BY <1>13, <1>0 DEF Content
<1> QED BY <1>10, <1>11, <1>12, <1>14 DEF q, r, k, src, rect, b

LEMMA ColoursOf ==
  ASSUME NEW in \in Drawable
  PROVE  /\ in.theme.background \in Colour /\ in.theme.panel \in Colour
         /\ \A q : Content(in.buffer, q) \in Colour
         /\ \A p : OnGlyph(in, p) => Glyph(in, p) \in Colour
<1>1. /\ in.theme.background \in Colour /\ in.theme.panel \in Colour /\ in.theme.text \in Byte
      /\ in.buffer.body \in Colour /\ in.buffer.shadow \in Colour
  BY DEF Drawable, ClientBuffer
<1>2. \A p : OnGlyph(in, p) => Glyph(in, p) \in Colour
  BY <1>1, GlyphsAssumption DEF OnGlyph, Glyph, Pixel, Colour
<1> QED BY <1>1, <1>2 DEF Content

\* Every pixel is a colour, in both paths and over any framebuffer.
LEMMA CpuColours ==
  ASSUME NEW in \in Drawable, NEW p
  PROVE  CpuAt(in, p) \in Colour
<1>1. CpuClientAt(in, p) \in Colour
  BY ColoursOf, StraightIsColour, BlendIsColour DEF CpuClientAt
<1>2. CpuPanelAt(in, p) \in Colour
  BY <1>1, ColoursOf DEF CpuPanelAt
<1> QED BY <1>2, ColoursOf, BlendIsColour DEF CpuAt

LEMMA GlColours ==
  ASSUME NEW in \in Drawable, NEW picture \in [Points(in.size) -> Colour]
  PROVE  GlPicture(picture, in) \in [Points(in.size) -> Colour]
<1> DEFINE Pictures == [Points(in.size) -> Colour]
<1> DEFINE list == ListOf(in)
<1> DEFINE tex == TexturesOf(list)
<1>1. ASSUME NEW a \in Pictures, NEW item, item.kind = "fill", item.colour \in Colour, NEW t
      PROVE  DrawItem(a, item, t) \in Pictures
  <2>1. DrawItem(a, item, t) = DrawFill(a, item)
    BY <1>1 DEF DrawItem
  <2> QED BY <2>1, <1>1, GlBlendIsColour DEF DrawFill
<1>2. ASSUME NEW a \in Pictures, NEW t PROVE DrawItem(a, Slot(in), t) \in Pictures
  <2>1. Slot(in).kind = "surface" /\ Slot(in).buffer = in.buffer
    BY DEF Slot, Surface
  <2>2. DrawItem(a, Slot(in), t) \in {a, DrawClient(a, Slot(in))}
    BY <2>1 DEF DrawItem
  <2>3. ASSUME NEW px \in Colour
        PROVE  (IF in.buffer.format = "xrgb" THEN Pixel(px.c, 255) ELSE px) \in Colour
    BY DEF Pixel, Colour, Byte
  <2>4. \A u, q : u \in Colour =>
          GlBlend(u, IF in.buffer.format = "xrgb" THEN Pixel(Content(in.buffer, q).c, 255)
                     ELSE Content(in.buffer, q)) \in Colour
    BY <2>3, ColoursOf, GlBlendIsColour
  <2>5. DrawClient(a, Slot(in)) \in Pictures
    BY <2>1, <2>4 DEF DrawClient
  <2> QED BY <2>2, <2>5
<1>3. ASSUME NEW a \in Pictures
      PROVE  DrawItem(a, Image(TextAt(in), in.theme.text, Glyphs), tex[4]) \in Pictures
  <2> DEFINE image == Image(TextAt(in), in.theme.text, Glyphs)
  <2>1. image.kind = "image"
    BY DEF Image
  <2>2. tex[4] = image
    BY <2>1 DEF TexturesOf, ListOf, TextAt
  <2>3. DrawItem(a, image, tex[4]) \in {a, DrawImage(a, image, image)}
    BY <2>1, <2>2 DEF DrawItem
  <2>4. \A q \in DOMAIN image.pixels : image.pixels[q] \in Colour
    <3>1. in.theme.text \in Byte
      BY DEF Drawable
    <3> QED BY <3>1, GlyphsAssumption DEF Image, Pixel, Colour
  <2> HIDE DEF image
  <2>5. \A u, q : u \in Colour /\ q \in DOMAIN image.pixels =>
          GlBlend(u, Premultiply(image.pixels[q])) \in Colour
    BY <2>4, PremultiplyIsColour, GlBlendIsColour
  <2>6. DrawImage(a, image, image) \in Pictures
    BY <2>5 DEF DrawImage
  <2> QED BY <2>3, <2>6 DEF image
<1>4. /\ list[1].kind = "fill" /\ list[1].colour \in Colour
      /\ list[3].kind = "fill" /\ list[3].colour \in Colour
      /\ list[2] = Slot(in) /\ list[4] = Image(TextAt(in), in.theme.text, Glyphs)
  BY ColoursOf DEF ListOf, Fill, Slot, TextAt
<1> HIDE DEF list, tex, Pictures
<1>5. DrawItem(DrawItem(DrawItem(DrawItem(picture, list[1], tex[1]), list[2], tex[2]), list[3], tex[3]),
               list[4], tex[4]) \in Pictures
  BY <1>1, <1>2, <1>3, <1>4 DEF Pictures
<1> QED BY <1>5, GlUnrolled DEF list, tex, Pictures

----------------------------------------------------------------------------
(* The renderers between two frames                                        *)

LEMMA InputsAreDrawable ==
  ASSUME RenderInv
  PROVE  /\ Inputs \in Drawable /\ Inputs.size = size
         /\ Inputs.theme = theme /\ Inputs.buffer = buffer
  BY WindowSizesAssumption, ThemesAssumption, BuffersAssumption
     DEF RenderInv, RenderTypeOK, Inputs, Drawable

LEMMA FilledIs ==
  ASSUME NEW s, NEW px
  PROVE  /\ DOMAIN Filled(s, px) = Points(s)
         /\ px \in Colour => Filled(s, px) \in [Points(s) -> Colour]
BY DEF Filled

LEMMA BlankIsColour == Blank \in Colour
  BY DEF Blank, Pixel, Colour, Byte

\* Cpu::prepare makes a canvas of the window's size, painted from the inputs
\* and nothing else, or none for a window without an area.
LEMMA PreparedIs ==
  ASSUME RenderInv
  PROVE  \/ Prepared = << >> /\ ~IsValid(size)
         \/ /\ Prepared = [size |-> size, pixels |-> [p \in Points(size) |-> CpuAt(Inputs, p)]]
            /\ Prepared # << >>
<1> DEFINE P == [p \in Points(size) |-> CpuAt(Inputs, p)]
<1>0. \A c : [size |-> size, pixels |-> c] # << >>
  <2>1. DOMAIN << >> = {} /\ \A c : "size" \in DOMAIN [size |-> size, pixels |-> c]
    OBVIOUS
  <2> QED BY <2>1
<1>1. ASSUME NEW c, DOMAIN c = Points(size) PROVE CpuPicture(c, Inputs) = P
  BY <1>1, InputsAreDrawable, CpuIsPointwise
<1>2. CASE Fits(canvas, size)
  <2>1. canvas # << >> /\ canvas.size = size
    BY <1>2 DEF Fits
  <2>2. canvas = [size |-> size, pixels |-> canvas.pixels] /\ DOMAIN canvas.pixels = Points(size)
    BY <2>1 DEF RenderInv
  <2>3. CpuPicture(canvas.pixels, Inputs) = P
    BY <1>1, <2>2
  <2>4. Prepared = [canvas EXCEPT !.pixels = CpuPicture(@, Inputs)]
    BY <1>2, <2>1 DEF Prepared
  <2> HIDE DEF P
  <2>5. Prepared = [size |-> size, pixels |-> P]
    BY <2>2, <2>3, <2>4
  <2> QED BY <1>0, <2>5 DEF P
<1>3. CASE ~Fits(canvas, size) /\ IsValid(size)
  <2>1. NewCanvas(size) = [size |-> size, pixels |-> Filled(size, Blank)]
    BY <1>3 DEF NewCanvas
  <2>2. Prepared = [NewCanvas(size) EXCEPT !.pixels = CpuPicture(@, Inputs)]
    BY <1>3, <1>0, <2>1 DEF Prepared
  <2>3. CpuPicture(Filled(size, Blank), Inputs) = P
    BY <1>1, FilledIs
  <2> HIDE DEF P
  <2>4. Prepared = [size |-> size, pixels |-> P]
    BY <2>1, <2>2, <2>3
  <2> QED BY <1>0, <2>4 DEF P
<1>4. CASE ~Fits(canvas, size) /\ ~IsValid(size)
  BY <1>4 DEF Prepared, NewCanvas
<1> QED BY <1>2, <1>3, <1>4

LEMMA PreparedTypes ==
  ASSUME RenderInv, Prepared # << >>
  PROVE  /\ Prepared.size = size /\ Prepared = [size |-> Prepared.size, pixels |-> Prepared.pixels]
         /\ Prepared.pixels \in [Points(size) -> Colour]
BY PreparedIs, InputsAreDrawable, CpuColours

LEMMA ChannelsOf ==
  ASSUME NEW P, NEW f \in [P -> Colour]
  PROVE  Channels(f)
BY DEF Channels, Colour

LEMMA FrameKeeps ==
  ASSUME RenderInv, DrawFrame
  PROVE  RenderInv'
<1> USE DEF DrawFrame
<1>1. canvas' # << >> => /\ canvas'.size \in WindowSizes
                         /\ canvas' = [size |-> canvas'.size, pixels |-> canvas'.pixels]
                         /\ canvas'.pixels \in [Points(canvas'.size) -> Colour]
  BY PreparedTypes DEF RenderInv, RenderTypeOK
<1>2. texture' # << >> => texture'.pixels \in [Points(texture'.size) -> Colour]
  BY PreparedTypes DEF RenderInv
<1>3. /\ shown' \in [size : WindowSizes, theme : Themes, buffer : Buffers]
      /\ shown' = Inputs /\ Inputs \in Drawable /\ Inputs.size = size
      /\ Inputs.theme = theme
  BY InputsAreDrawable DEF RenderInv, RenderTypeOK, Inputs
<1>4. PICK g \in Garbage :
        screen' = [cpu |-> Presented(texture'), gl |-> GlPicture(Filled(size, g), Inputs)]
  OBVIOUS
<1>5. Filled(size, g) \in [Points(size) -> Colour]
  BY GarbageAssumption, FilledIs
<1>6. Channels(screen'.cpu) /\ Channels(screen'.gl)
  <2>1. Channels(Presented(texture'))
    <3>1. CASE texture' = << >>
      BY <3>1 DEF Presented, Channels
    <3>2. CASE texture' # << >>
      BY <3>2, <1>2, ChannelsOf DEF Presented
    <3> QED BY <3>1, <3>2
  <2>2. Channels(GlPicture(Filled(size, g), Inputs))
    BY <1>3, <1>5, GlColours, ChannelsOf
  <2> QED BY <1>4, <2>1, <2>2
<1>7. canvas' # << >> => DOMAIN canvas'.pixels = Points(canvas'.size) /\ Channels(canvas'.pixels)
  BY <1>1, ChannelsOf
<1>8. RenderTypeOK'
  BY <1>6, <1>7 DEF RenderTypeOK, RenderInv
<1>9. PictureIsFresh'
  <2> SUFFICES ASSUME HasPicture'
               PROVE  /\ screen'.cpu = CpuPicture(Filled(size, Blank), Inputs)
                      /\ theme.background.a = 255 =>
                           screen'.gl = GlPicture(Filled(size, Blank), Inputs)
    BY <1>3 DEF PictureIsFresh, Cleared
  <2>1. IsValid(size)
    BY <1>3 DEF HasPicture
  <2>2. texture' = Prepared /\ Presented(texture') = [p \in Points(size) |-> CpuAt(Inputs, p)]
    BY <2>1, PreparedIs DEF Presented
  <2>3. CpuPicture(Filled(size, Blank), Inputs) = [p \in Points(size) |-> CpuAt(Inputs, p)]
    BY <1>3, FilledIs, CpuIsPointwise
  <2>4. ASSUME theme.background.a = 255
        PROVE  GlPicture(Filled(size, g), Inputs) = GlPicture(Filled(size, Blank), Inputs)
    <3>1. Filled(size, Blank) \in [Points(size) -> Colour]
      BY FilledIs, BlankIsColour
    <3> QED BY <1>3, <1>5, <2>4, <3>1, GlIsPointwise
  <2> QED BY <1>4, <2>2, <2>3, <2>4
<1> QED BY <1>1, <1>2, <1>3, <1>8, <1>9 DEF RenderInv

\* Whatever else happens, the frame on the screen is the one that was drawn.
LEMMA SameFrame ==
  ASSUME RenderInv, UNCHANGED <<shown, screen>>
  PROVE  PictureIsFresh'
BY DEF RenderInv, PictureIsFresh, HasPicture, Cleared

LEMMA DroppedKeeps ==
  ASSUME RenderInv, FrameDropped
  PROVE  RenderInv'
<1> USE DEF FrameDropped
<1>1. canvas' # << >> => /\ canvas'.size \in WindowSizes
                         /\ canvas' = [size |-> canvas'.size, pixels |-> canvas'.pixels]
                         /\ canvas'.pixels \in [Points(canvas'.size) -> Colour]
  BY PreparedTypes DEF RenderInv, RenderTypeOK
<1>2. texture' # << >> => texture'.pixels \in [Points(texture'.size) -> Colour]
  BY PreparedTypes DEF RenderInv
<1>3. canvas' # << >> => DOMAIN canvas'.pixels = Points(canvas'.size) /\ Channels(canvas'.pixels)
  BY <1>1, ChannelsOf
<1>4. RenderTypeOK'
  BY <1>3 DEF RenderTypeOK, RenderInv
<1> QED BY <1>1, <1>2, <1>4, SameFrame DEF RenderInv

LEMMA OthersKeep ==
  ASSUME RenderInv, Resize \/ Commit \/ UNCHANGED renderVars
  PROVE  RenderInv'
<1>1. UNCHANGED <<theme, canvas, texture, shown, screen>>
  BY DEF Resize, Commit, renderVars
<1>2. size' \in WindowSizes /\ buffer' \in Buffers
  BY DEF Resize, Commit, renderVars, RenderInv, RenderTypeOK
<1>3. PictureIsFresh'
  BY <1>1, SameFrame
<1>4. RenderTypeOK'
  BY <1>1, <1>2 DEF RenderInv, RenderTypeOK, Channels
<1> QED BY <1>1, <1>3, <1>4 DEF RenderInv

LEMMA RenderInitInv == RenderInit => RenderInv
<1> SUFFICES ASSUME RenderInit PROVE RenderInv
  OBVIOUS
<1>1. RenderTypeOK
  BY DEF RenderInit, RenderTypeOK
<1>2. PictureIsFresh
  BY DEF RenderInit, PictureIsFresh, HasPicture
<1> QED BY <1>1, <1>2 DEF RenderInit, RenderInv

LEMMA RenderSpecInv == RenderSpec => []RenderInv
<1>1. RenderInv /\ [RenderNext]_renderVars => RenderInv'
  BY FrameKeeps, DroppedKeeps, OthersKeep DEF RenderNext
<1> QED BY RenderInitInv, <1>1, PTL DEF RenderSpec

\* cpu.rs:28-31: whatever was drawn, dropped, resized and committed before,
\* a frame is a function of the inputs it was drawn from, in the GL path as
\* long as the theme's desktop is opaque.
THEOREM FramesStayFresh == RenderSpec => []PictureIsFresh
<1>1. RenderInv => PictureIsFresh
  BY DEF RenderInv
<1> QED BY <1>1, RenderSpecInv, PTL

----------------------------------------------------------------------------
(* What is on the screen                                                   *)

\* The last frame's inputs, and what both paths made of a pixel of it.
LEMMA OnTheScreen ==
  ASSUME RenderInv, HasPicture
  PROVE  /\ shown \in Drawable /\ shown.size \in [w : Nat, h : Nat]
         /\ screen.cpu = [p \in Points(shown.size) |-> CpuAt(shown, p)]
         /\ Cleared => screen.gl = [p \in Points(shown.size) |-> GlAt(shown, p)]
<1>1. shown \in [size : WindowSizes, theme : Themes, buffer : Buffers]
  BY DEF HasPicture, RenderInv
<1>2. shown \in Drawable
  BY <1>1, WindowSizesAssumption, ThemesAssumption, BuffersAssumption DEF Drawable
<1>3. screen.cpu = CpuPicture(Filled(shown.size, Blank), shown)
  BY DEF RenderInv, PictureIsFresh
<1>4. Cleared => screen.gl = GlPicture(Filled(shown.size, Blank), shown)
  BY DEF RenderInv, PictureIsFresh
<1>5. shown.size \in [w : Nat, h : Nat]
  BY <1>2 DEF Drawable
<1>6. Filled(shown.size, Blank) \in [Points(shown.size) -> Colour]
  BY FilledIs, BlankIsColour
<1>7. screen.cpu = [p \in Points(shown.size) |-> CpuAt(shown, p)]
  BY <1>2, <1>3, FilledIs, CpuIsPointwise
<1>8. ASSUME Cleared PROVE screen.gl = [p \in Points(shown.size) |-> GlAt(shown, p)]
  BY <1>2, <1>4, <1>6, <1>8, GlIsPointwise DEF Cleared
<1> QED BY <1>2, <1>5, <1>7, <1>8

\* Two frames of the same size and theme differ where the client does.
LEMMA SameButTheClient ==
  ASSUME NEW in \in Drawable, NEW other \in Drawable, NEW p,
         other.size = in.size, other.theme = in.theme
  PROVE  /\ CpuClientAt(other, p) = CpuClientAt(in, p) => CpuAt(other, p) = CpuAt(in, p)
         /\ GlClientAt(other, p) = GlClientAt(in, p) => GlAt(other, p) = GlAt(in, p)
BY DEF CpuAt, CpuPanelAt, GlAt, GlPanelAt, InPanel, OnGlyph, Glyph, TextAt

\* What the pictures of other inputs are, drawn from nothing.
LEMMA PicturesOf ==
  ASSUME NEW in \in Drawable
  PROVE  /\ CpuPicture(Filled(in.size, Blank), in) = [p \in Points(in.size) |-> CpuAt(in, p)]
         /\ in.theme.background.a = 255 =>
              GlPicture(Filled(in.size, Blank), in) = [p \in Points(in.size) |-> GlAt(in, p)]
<1>1. Filled(in.size, Blank) \in [Points(in.size) -> Colour]
  BY FilledIs, BlankIsColour
<1> QED BY <1>1, FilledIs, CpuIsPointwise, GlIsPointwise

\* Beside the tile there is the desktop.
LEMMA BesideTheTile ==
  ASSUME NEW in \in Drawable, NEW p \in Points(in.size), ~ContainsPoint(TileOf(in.size), p)
  PROVE  CpuClientAt(in, p) = in.theme.background /\ GlClientAt(in, p) = in.theme.background
BY SameWindow DEF CpuClientAt, GlClientAt

LEMMA StaysInItsTile ==
  ASSUME RenderInv
  PROVE  ClientStaysInItsTile
<1> SUFFICES ASSUME HasPicture PROVE ClientStaysInItsTile
  BY DEF ClientStaysInItsTile
<1> DEFINE empty == [shown EXCEPT !.buffer.kind = "none"]
<1>1. shown \in Drawable
  BY OnTheScreen
<1>2. empty \in Drawable /\ empty.size = shown.size /\ empty.theme = shown.theme
  BY <1>1 DEF Drawable, ClientBuffer
<1> HIDE DEF empty
<1> SUFFICES ASSUME NEW p \in Points(shown.size), ~ContainsPoint(TileOf(shown.size), p)
             PROVE  /\ screen.cpu[p] = CpuPicture(Filled(shown.size, Blank), empty)[p]
                    /\ Cleared => screen.gl[p] = GlPicture(Filled(shown.size, Blank), empty)[p]
  BY DEF ClientStaysInItsTile, empty
<1>3. CpuAt(empty, p) = CpuAt(shown, p) /\ GlAt(empty, p) = GlAt(shown, p)
  BY <1>1, <1>2, BesideTheTile, SameButTheClient
<1>4. CpuPicture(Filled(shown.size, Blank), empty)[p] = CpuAt(empty, p)
  BY <1>2, PicturesOf
<1>5. ASSUME Cleared PROVE GlPicture(Filled(shown.size, Blank), empty)[p] = GlAt(empty, p)
  <2>1. empty.theme.background.a = 255
    BY <1>2, <1>5 DEF Cleared
  <2>2. GlPicture(Filled(empty.size, Blank), empty) = [e \in Points(empty.size) |-> GlAt(empty, e)]
    BY <1>2, <2>1, PicturesOf
  <2> QED BY <1>2, <2>2
<1>6. screen.cpu[p] = CpuAt(shown, p) /\ (Cleared => screen.gl[p] = GlAt(shown, p))
  BY OnTheScreen
<1> QED BY <1>3, <1>4, <1>5, <1>6

LEMMA ShadowsStayOut ==
  ASSUME RenderInv
  PROVE  ShadowsAreNeverShown
<1> SUFFICES ASSUME HasPicture PROVE ShadowsAreNeverShown
  BY DEF ShadowsAreNeverShown
<1> DEFINE dark == Pixel(255 - shown.buffer.shadow.c, 255)
<1> DEFINE other == [shown EXCEPT !.buffer.shadow = Pixel(255 - @.c, 255)]
<1>1. shown \in Drawable
  BY OnTheScreen
<1>2. dark \in Colour
  BY <1>1 DEF Drawable, ClientBuffer, Colour, Pixel, Byte
<1>3. /\ other \in Drawable /\ other.size = shown.size /\ other.theme = shown.theme
      /\ other.buffer = [shown.buffer EXCEPT !.shadow = dark]
  <2>1. other = [shown EXCEPT !.buffer = [shown.buffer EXCEPT !.shadow = dark]]
    BY <1>1 DEF Drawable, ClientBuffer
  <2> HIDE DEF other, dark
  <2>2. [shown.buffer EXCEPT !.shadow = dark] \in ClientBuffer
    BY <1>1, <1>2 DEF Drawable, ClientBuffer
  <2> QED BY <2>1, <2>2, <1>1 DEF Drawable
<1> HIDE DEF dark, other
<1>4. /\ \A f \in {"kind", "w", "h", "stride", "offset", "len", "format", "geometry", "body"} :
           other.buffer[f] = shown.buffer[f]
  BY <1>1, <1>3 DEF Drawable, ClientBuffer
<1>5. /\ other.buffer.kind = shown.buffer.kind /\ other.buffer.w = shown.buffer.w
      /\ other.buffer.h = shown.buffer.h /\ other.buffer.stride = shown.buffer.stride
      /\ other.buffer.offset = shown.buffer.offset /\ other.buffer.len = shown.buffer.len
      /\ other.buffer.format = shown.buffer.format /\ other.buffer.geometry = shown.buffer.geometry
      /\ other.buffer.body = shown.buffer.body
  BY <1>4
<1>6. /\ Slot(other).rect = Slot(shown).rect /\ Slot(other).src = Slot(shown).src
      /\ Slot(other).buffer = other.buffer /\ Slot(shown).buffer = shown.buffer
  BY <1>3, <1>5 DEF Slot, Surface, BufferOffset
<1>7. /\ Readable(other.buffer) = Readable(shown.buffer)
      /\ Imported(other.buffer) = Imported(shown.buffer)
      /\ Skip(Slot(other)) = Skip(Slot(shown))
      /\ Visible(Slot(other)) = Visible(Slot(shown))
  BY <1>5, <1>6 DEF Readable, Imported, Skip, Visible
<1>8. ASSUME NEW q PROVE Shows(Slot(other), q) <=> Shows(Slot(shown), q)
  BY <1>5, <1>6, <1>7 DEF Shows, Looked, Points
<1>9. ASSUME NEW p \in Points(shown.size)
      PROVE  /\ CpuClientAt(other, p) = CpuClientAt(shown, p)
             /\ GlClientAt(other, p) = GlClientAt(shown, p)
  <2> DEFINE q == Offset(Less(p, Slot(shown).rect), Skip(Slot(shown)))
  <2> DEFINE r == Offset(Less(p, Slot(shown).rect), Slot(shown).src)
  <2>1. /\ Shows(Slot(shown), q) <=> ContainsPoint(Visible(Slot(shown)), p)
        /\ Shows(Slot(shown), q) => /\ Content(shown.buffer, q) = shown.buffer.body
                                   /\ Content(shown.buffer, r) = shown.buffer.body
    BY <1>1, SameWindow
  <2>2. Shows(Slot(shown), q) => /\ Content(other.buffer, q) = shown.buffer.body
                               /\ Content(other.buffer, r) = shown.buffer.body
    <3>1. /\ q = Offset(Less(p, Slot(other).rect), Skip(Slot(other)))
          /\ r = Offset(Less(p, Slot(other).rect), Slot(other).src)
      BY <1>6, <1>7
    <3>2. p \in Points(other.size)
      BY <1>3
    <3> HIDE DEF q, r
    <3>3. Shows(Slot(other), q) => /\ Content(other.buffer, q) = other.buffer.body
                                 /\ Content(other.buffer, r) = other.buffer.body
      BY <1>3, <3>1, <3>2, SameWindow
    <3> QED BY <3>3, <1>5, <1>8
  <2>3. CpuClientAt(other, p) = CpuClientAt(shown, p)
    BY <2>1, <2>2, <1>3, <1>5, <1>6, <1>7, <1>8 DEF CpuClientAt
  <2>4. GlClientAt(other, p) = GlClientAt(shown, p)
    BY <2>1, <2>2, <1>3, <1>5, <1>6, <1>7 DEF GlClientAt
  <2> QED BY <2>3, <2>4
<1>10. \A p \in Points(shown.size) :
         CpuAt(other, p) = CpuAt(shown, p) /\ GlAt(other, p) = GlAt(shown, p)
  BY <1>1, <1>3, <1>9, SameButTheClient
<1>11. screen.cpu = CpuPicture(Filled(shown.size, Blank), other)
  BY <1>3, <1>10, OnTheScreen, PicturesOf
<1>12. ASSUME Cleared PROVE screen.gl = GlPicture(Filled(shown.size, Blank), other)
  BY <1>3, <1>10, <1>12, OnTheScreen, PicturesOf DEF Cleared
<1> QED BY <1>11, <1>12 DEF ShadowsAreNeverShown, other

\* cpu.rs:67-85: the last byte of the last row is in the pool.
LEMMA ReadsFit ==
  ASSUME RenderInv
  PROVE  ReadsStayInPool
<1> SUFFICES ASSUME HasPicture, NEW i \in BytesRead(Slot(shown)), Readable(shown.buffer)
             PROVE  i \in 0..(shown.buffer.len - 1)
  BY SlotIs, OnTheScreen DEF ReadsStayInPool, BytesRead, Slot
<1> DEFINE b == shown.buffer
<1>1. /\ b.w \in Nat /\ b.h \in Nat /\ b.stride \in Nat /\ b.offset \in Nat /\ b.len \in Nat
      /\ b.w * 4 <= b.stride /\ b.h * b.stride + b.offset <= b.len
  BY OnTheScreen DEF Readable, Drawable, ClientBuffer
<1>2. PICK q \in Looked(Slot(shown)) :
        i \in (b.offset + q.y * b.stride + q.x * 4)..(b.offset + q.y * b.stride + q.x * 4 + 3)
  BY SlotIs, OnTheScreen DEF BytesRead
<1>3. q.x \in 0..(b.w - 1) /\ q.y \in 0..(b.h - 1)
  <2>1. q \in Points(b)
    BY SlotIs, OnTheScreen, <1>2 DEF Looked
  <2> QED BY <2>1 DEF Points, Point
<1> HIDE DEF b
<1> DEFINE u == q.x
<1> DEFINE v == q.y
<1> DEFINE w == b.w
<1> DEFINE h == b.h
<1> DEFINE o == b.offset
<1> DEFINE t == b.stride
<1> HIDE DEF u, v, w, h, o, t
<1>4. v \in Nat /\ v + 1 <= h /\ u \in Nat /\ u + 1 <= w
  BY <1>1, <1>3 DEF u, v, w, h
<1>5. w \in Nat /\ h \in Nat /\ o \in Nat /\ t \in Nat /\ w * 4 <= t
  BY <1>1 DEF w, h, o, t
<1>6. t * (v + 1) \in Nat /\ t * (v + 1) <= t * h
  BY <1>4, <1>5, ProductGrows
<1>7. v * t \in Nat /\ v * t + t <= h * t
  <2>1. t * (v + 1) = v * t + t /\ t * h = h * t /\ v * t \in Nat
    BY <1>4, <1>5
  <2> QED BY <1>6, <2>1
<1>8. i \in (o + v * t + u * 4)..(o + v * t + u * 4 + 3) /\ h * t + o <= b.len
  BY <1>1, <1>2 DEF u, v, h, o, t
<1> DEFINE vt == v * t
<1> DEFINE ht == h * t
<1>9. /\ vt \in Nat /\ vt + t <= ht /\ ht + o <= b.len
      /\ i \in (o + vt + u * 4)..(o + vt + u * 4 + 3) /\ b.len \in Nat /\ ht \in Int
  BY <1>1, <1>5, <1>7, <1>8
<1> HIDE DEF vt, ht
<1> QED BY <1>4, <1>5, <1>9 DEF b

\* text.rs:80-87, text.rs:560-564, cpu.rs:67-85: whatever a client claims of
\* its buffer, its window is shown and nothing else of its memory, on its tile
\* and nowhere else, and no byte outside the pool is read.
THEOREM ClientsAreShownAsTheyAre == RenderSpec => []ClientsShowTheirOwn
<1>1. RenderInv => ClientsShowTheirOwn
  BY StaysInItsTile, ShadowsStayOut, ReadsFit DEF RenderInv, ClientsShowTheirOwn
<1> QED BY <1>1, RenderSpecInv, PTL

\* A glyph is on the panel: a line of text and the panel are one pixel high.
LEMMA GlyphsAreOnThePanel ==
  ASSUME NEW in \in Drawable, NEW p \in Points(in.size), OnGlyph(in, p)
  PROVE  InPanel(in, p)
<1>1. in.size \in [w : Nat, h : Nat] /\ in.size.w \in Nat /\ in.size.h \in Nat
  BY DEF Drawable
<1>2. p.x \in Int /\ p.y \in Int
  BY <1>1, RowsAndColumns
<1> DEFINE q == Less(p, TextAt(in))
<1>3. q.y = p.y - (in.size.h - 1)
  BY DEF Less, TextAt, Point
<1>4. q.y = 0
  BY GlyphsAssumption DEF OnGlyph, Point
<1> QED BY <1>1, <1>2, <1>3, <1>4 DEF InPanel

LEMMA RoundingOnly ==
  ASSUME RenderInv
  PROVE  PathsAgreeWithinRounding
<1> SUFFICES ASSUME HasPicture, Opaque(shown.theme), shown.buffer.kind # "dmabuf",
                    Honest(shown.buffer), NEW p \in Points(shown.size)
             PROVE  screen.cpu[p].c \in (screen.gl[p].c - 1)..(screen.gl[p].c + 1)
  BY DEF PathsAgreeWithinRounding
<1>1. shown \in Drawable /\ shown.theme.background.a = 255 /\ shown.theme.panel.a = 255
  BY OnTheScreen DEF Opaque
<1>2. screen.cpu[p] = CpuAt(shown, p) /\ screen.gl[p] = GlAt(shown, p)
  BY <1>1, OnTheScreen DEF Cleared
<1>3. ASSUME NEW px \in Colour PROVE px.c \in (px.c - 1)..(px.c + 1)
  BY DEF Colour, Byte
<1>4. CpuClientAt(shown, p) \in Colour /\ CpuPanelAt(shown, p) \in Colour
  BY <1>1, ColoursOf, StraightIsColour, BlendIsColour DEF CpuClientAt, CpuPanelAt
<1>5. CASE InPanel(shown, p)
  <2>1. CpuPanelAt(shown, p) = shown.theme.panel
    BY <1>5 DEF CpuPanelAt
  <2>2. GlPanelAt(shown, p) = shown.theme.panel
    <3>1. GlClientAt(shown, p) \in Colour
      <4>1. \A q : (IF shown.buffer.format = "xrgb" THEN Pixel(Content(shown.buffer, q).c, 255)
                    ELSE Content(shown.buffer, q)) \in Colour
        BY <1>1, ColoursOf DEF Pixel, Colour, Byte
      <4> QED BY <1>1, <4>1, ColoursOf, GlBlendIsColour DEF GlClientAt
    <3>2. shown.theme.panel \in Colour
      BY <1>1, ColoursOf
    <3>3. GlBlend(GlClientAt(shown, p), shown.theme.panel) = Pixel(shown.theme.panel.c, 255)
      BY <1>1, <3>1, <3>2, GlBlendIsColour
    <3>4. shown.theme.panel = Pixel(shown.theme.panel.c, 255)
      BY <1>1, <3>2 DEF Colour, Pixel
    <3> QED BY <1>5, <3>3, <3>4 DEF GlPanelAt
  <2>3. CASE OnGlyph(shown, p)
    BY <1>1, <1>2, <1>4, <2>1, <2>2, <2>3, ColoursOf, GlyphPixelsAgree DEF CpuAt, GlAt
  <2>4. CASE ~OnGlyph(shown, p)
    BY <1>1, <1>2, <1>3, <2>1, <2>2, <2>4, ColoursOf DEF CpuAt, GlAt
  <2> QED BY <2>3, <2>4
<1>6. CASE ~InPanel(shown, p)
  <2>1. ~OnGlyph(shown, p)
    BY <1>1, <1>6, GlyphsAreOnThePanel
  <2>2. screen.cpu[p] = CpuClientAt(shown, p) /\ screen.gl[p] = GlClientAt(shown, p)
    BY <1>2, <1>6, <2>1 DEF CpuAt, CpuPanelAt, GlAt, GlPanelAt
  <2>3. Imported(shown.buffer) <=> Readable(shown.buffer)
    BY DEF Imported
  <2> DEFINE q == Offset(Less(p, Slot(shown).rect), Skip(Slot(shown)))
  <2> DEFINE r == Offset(Less(p, Slot(shown).rect), Slot(shown).src)
  <2>4. /\ Shows(Slot(shown), q) <=> ContainsPoint(Visible(Slot(shown)), p)
        /\ Shows(Slot(shown), q) => /\ Content(shown.buffer, q) = shown.buffer.body
                                   /\ Content(shown.buffer, r) = shown.buffer.body
    BY <1>1, SameWindow
  <2> HIDE DEF q, r
  <2>5. CASE Readable(shown.buffer) /\ Shows(Slot(shown), q)
    <3> DEFINE body == shown.buffer.body
    <3> DEFINE xrgb == shown.buffer.format = "xrgb"
    <3>1. CpuClientAt(shown, p) = Blend(shown.theme.background, Straight(body, xrgb))
      BY <2>4, <2>5 DEF CpuClientAt, q
    <3>2. GlClientAt(shown, p)
            = GlBlend(shown.theme.background, IF xrgb THEN Pixel(body.c, 255) ELSE body)
      BY <2>3, <2>4, <2>5 DEF GlClientAt, r
    <3>3. body \in Colour /\ body.c <= body.a /\ xrgb \in BOOLEAN
      BY <1>1 DEF Drawable, ClientBuffer, Honest
    <3> HIDE DEF body, xrgb
    <3> QED BY <1>1, <2>2, <3>1, <3>2, <3>3, ColoursOf, ClientPixelsAgree
  <2>6. CASE ~(Readable(shown.buffer) /\ Shows(Slot(shown), q))
    <3>1. CpuClientAt(shown, p) = shown.theme.background
      BY <2>6 DEF CpuClientAt, q
    <3>2. GlClientAt(shown, p) = shown.theme.background
      BY <2>3, <2>4, <2>6 DEF GlClientAt
    <3> QED BY <1>1, <1>3, <2>2, <3>1, <3>2, ColoursOf
  <2> QED BY <2>5, <2>6
<1> QED BY <1>5, <1>6

\* gles.rs:200-203, text.rs:510-513: with opaque fills, of whatever size and
\* colours, and with a client that does not lie about its colours, the two
\* renderers' pictures differ by one step of 255 at most.
THEOREM PathsAgree == RenderSpec => []PathsAgreeWithinRounding
<1>1. RenderInv => PathsAgreeWithinRounding
  BY RoundingOnly
<1> QED BY <1>1, RenderSpecInv, PTL
=============================================================================
