------------------------- MODULE WindowModelProofs ---------------------------
(***************************************************************************)
(* The window model stays sound for any number of outputs, windows and     *)
(* tiles.  The invariant is Good with FamiliesOK, and each action is one   *)
(* method that keeps both (CoreProofs).  The second half is about          *)
(* single steps: what a method may do to the order of a bar, to the tiles  *)
(* of each output and to the focus, and who gets a tile that comes free.   *)
(***************************************************************************)
EXTENDS WindowWaiting, CoreProofs, FiniteSetTheorems, TLAPS

Inv == Good(model) /\ FamiliesOK(model)

USE BoundsAssumption, NoWindowAssumption

----------------------------------------------------------------------------

LEMMA InitInv == Init => Inv
<1>1. FamiliesOK(EmptyModel)
  BY DEF FamiliesOK, Live, EmptyModel
<1> QED BY <1>1, EmptyIsGood DEF Init, Inv

\* One case per method.
LEMMA NextInv == Inv /\ [Next]_vars => Inv'
<1> SUFFICES ASSUME Inv, [Next]_vars PROVE Inv'
  OBVIOUS
<1>1. Good(model) /\ FamiliesOK(model) /\ model.focus \in Live(model) \cup {NoWindow}
  BY DEF Inv, Good, HandlesOK
<1>2. CASE Resize
  <2>1. PICK o \in Outputs, c \in 0..MaxCapacity : model' = SetCapacity(model, o, c)
    BY <1>2 DEF Resize
  <2>2. c \in Nat
    OBVIOUS
  <2> QED BY <1>1, <2>1, <2>2, SetCapacityGood, SlotsChangeNoFamily DEF Inv
<1>3. CASE OpenWindow
  BY <1>1, <1>3, OpenToplevelGood, OpenToplevelFamilies DEF OpenWindow, Inv
<1>4. CASE OpenDialogOrPopup
  BY <1>1, <1>4, OpenChildGood, OpenChildFamilies DEF OpenDialogOrPopup, Inv
<1>5. CASE Adopt
  BY <1>1, <1>5, AdoptGood, AdoptFamilies DEF Adopt, Inv
<1>6. CASE CloseWindow
  BY <1>1, <1>6, CloseGood, CloseFamilies DEF CloseWindow, Inv
<1>7. CASE ActivateWindow
  BY <1>1, <1>7, ActivateGood, SlotsChangeNoFamily DEF ActivateWindow, Inv
<1>8. CASE FocusWindow
  BY <1>1, <1>8, FocusGood, SlotsChangeNoFamily DEF FocusWindow, Focus, Inv
<1>9. CASE Cycle
  BY <1>1, <1>9, CycleGood, SlotsChangeNoFamily DEF Cycle, Inv
<1>10. CASE MigrateOutput
  BY <1>1, <1>10, MigrateGood, MigrateFamilies DEF MigrateOutput, Inv
<1>11. CASE UNCHANGED vars
  BY <1>11 DEF vars, Inv
<1> QED BY <1>2, <1>3, <1>4, <1>5, <1>6, <1>7, <1>8, <1>9, <1>10, <1>11 DEF Next

\* Every reachable model is good: window.rs through any sequence of calls.
THEOREM SpecInv == Spec => []Inv
<1> QED BY InitInv, NextInv, PTL DEF Spec

\* Windows and slots are what window.rs:96-150 declares, focus never names a
\* window that is gone, and no handle in use is one that will be given out.
THEOREM TypeCorrect == Spec => []TypeOK
<1>1. Inv => TypeOK
  BY DEF Inv, Good, TypeOK
<1> QED BY <1>1, SpecInv, PTL

\* window.rs:103-104, 336-337: the tiles of every output hold distinct
\* windows of its bar, as many as there is room for, whatever was opened,
\* closed, adopted, resized or migrated.
THEOREM TilesAreRight == Spec => []TilesFollowBar
<1>1. Inv => TilesFollowBar
  BY DEF Inv, Good, TilesFollowBar
<1> QED BY <1>1, SpecInv, PTL

\* Every toplevel, and nothing else, is on the bar of its output.
THEOREM BarsAreComplete == Spec => []BarsHoldToplevels
<1>1. Inv => BarsHoldToplevels
  BY DEF Inv, Good, BarsHoldToplevels
<1> QED BY <1>1, SpecInv, PTL

\* window.rs:272-273, 283-286: whatever the clients ask for, every dialog and
\* popup has a live parent that is not itself below it: no chain of parents
\* comes back to where it began, and closing a window orphans no child.
THEOREM ParentsAreAForest == Spec => []FamiliesAreTrees
<1>1. Inv => FamiliesAreTrees
  BY DEF Inv, FamiliesAreTrees
<1> QED BY <1>1, SpecInv, PTL

----------------------------------------------------------------------------
(* What a step may do to one output.  The properties of steps compare the  *)
(* slot of an output with what it becomes: their parts, for one slot.      *)

OrderKept(old, new) ==
  \A a, b \in Elements(old.order) \cap Elements(new.order) :
    Position(old.order, a) < Position(old.order, b)
      => Position(new.order, a) < Position(new.order, b)

ServedInOrder(old, new) ==
  Freed(old, new) =>
    \A v, w \in Elements(old.order) \cap Elements(new.order) :
      /\ Position(old.order, v) < Position(old.order, w)
      /\ w \in Elements(new.tiled) \ Elements(old.tiled)
      /\ v \notin Elements(old.tiled)
      => v \in Elements(new.tiled)

OneEvicted(old, new) ==
  old.capacity = new.capacity
    => Cardinality((Elements(old.tiled) \ Elements(new.tiled)) \cap Elements(new.order)) <= 1

LeadingKept(old, new) ==
  LET n == IF Len(old.tiled) < Len(new.tiled) THEN Len(old.tiled) ELSE Len(new.tiled)
  IN  old.capacity # new.capacity => Take(old.tiled, n) = Take(new.tiled, n)

Allowed(old, new) ==
  /\ OrderKept(old, new) /\ ServedInOrder(old, new)
  /\ OneEvicted(old, new) /\ LeadingKept(old, new)

\* A set with nothing but x in it has at most one member.
LEMMA AtMostOne ==
  ASSUME NEW S, NEW x, S \subseteq {x}
  PROVE  Cardinality(S) <= 1
<1>1. CASE S = {}
  BY <1>1, FS_EmptySet
<1>2. CASE S = {x}
  BY <1>2, FS_Singleton
<1> QED BY <1>1, <1>2

\* fill_free_tiles adds tiles after those that are held.
LEMMA FillExtends ==
  ASSUME NEW s \in Slots, TilesOK(s)
  PROVE  LET t == FillFreeTiles(s).tiled
         IN  /\ t \in Seq(Nat) /\ Len(s.tiled) <= Len(t)
             /\ \A i \in 1..Len(s.tiled) : t[i] = s.tiled[i]
<1> DEFINE k == Take(WaitingOf(s), s.capacity - Len(s.tiled))
<1>1. /\ s.tiled \in Seq(Nat) /\ s.capacity - Len(s.tiled) \in Nat /\ NoDuplicates(s.order)
  BY DEF TilesOK, Slots
<1>2. k \in Seq(Nat)
  BY <1>1, WaitingFacts, TakeFacts
<1>3. FillFreeTiles(s) = [s EXCEPT !.tiled = s.tiled \o k]
  BY DEF FillFreeTiles
<1> HIDE DEF k
<1>4. FillFreeTiles(s).tiled = s.tiled \o k
  BY <1>3 DEF Slots
<1> DEFINE r == s.tiled \o k
<1>5. /\ r \in Seq(Nat) /\ Len(r) = Len(s.tiled) + Len(k)
      /\ \A i \in 1..(Len(s.tiled) + Len(k)) :
           r[i] = IF i <= Len(s.tiled) THEN s.tiled[i] ELSE k[i - Len(s.tiled)]
  BY <1>1, <1>2, ConcatProperties
<1>6. Len(s.tiled) \in Nat /\ Len(k) \in Nat
  BY <1>1, <1>2
<1> HIDE DEF r
<1>7. Len(s.tiled) <= Len(r) /\ \A i \in 1..Len(s.tiled) : r[i] = s.tiled[i]
  BY <1>5, <1>6
<1> QED BY <1>4, <1>5, <1>7 DEF r

\* fill_free_tiles serves the bar in its order: no window gets a tile while
\* one before it goes on waiting.
LEMMA FillServesOldest ==
  ASSUME NEW s \in Slots, TilesOK(s), NEW v \in Elements(s.order), NEW w \in Elements(s.order),
         Position(s.order, v) < Position(s.order, w), v \notin Elements(s.tiled),
         w \in Elements(FillFreeTiles(s).tiled) \ Elements(s.tiled)
  PROVE  v \in Elements(FillFreeTiles(s).tiled)
<1> DEFINE rest == Elements(s.order) \ Elements(s.tiled)
<1> DEFINE q == WaitingOf(s)
<1> DEFINE n == s.capacity - Len(s.tiled)
<1> DEFINE k == Take(q, n)
<1>1. /\ s.order \in Seq(Nat) /\ s.tiled \in Seq(Nat) /\ n \in Nat /\ NoDuplicates(s.order)
      /\ Elements(s.tiled) \subseteq Elements(s.order)
  BY DEF TilesOK, Slots
<1>2. q \in Seq(Nat) /\ NoDuplicates(q) /\ Elements(q) = rest
  BY <1>1, WaitingFacts
<1>3. FillFreeTiles(s) = [s EXCEPT !.tiled = s.tiled \o k]
  BY DEF FillFreeTiles
<1>4. q = Retain(s.order, rest)
  BY DEF WaitingOf
<1> HIDE DEF q, n
<1>5. /\ k \in Seq(Nat) /\ Len(k) = IF n < Len(q) THEN n ELSE Len(q)
      /\ \A i \in 1..Len(k) : k[i] = q[i]
      /\ Elements(k) \subseteq Elements(q)
  BY <1>1, <1>2, TakeFacts
<1> HIDE DEF k
<1>6. FillFreeTiles(s).tiled = s.tiled \o k
  BY <1>3 DEF Slots
<1>7. Elements(FillFreeTiles(s).tiled) = Elements(s.tiled) \cup Elements(k)
  <2>1. Elements(s.tiled \o k) = Elements(s.tiled) \cup Elements(k)
    BY <1>1, <1>5, ConcatFacts
  <2> QED BY <1>6, <2>1
<1>8. v \in rest /\ w \in rest /\ w \in Elements(k)
  <2>1. w \in Elements(k)
    BY <1>7
  <2> QED BY <1>2, <1>5, <2>1
<1>9. Position(q, v) < Position(q, w)
  BY <1>1, <1>4, <1>8, RetainKeepsOrder
<1>10. PICK j \in 1..Len(k) : k[j] = w
  BY <1>8 DEF Elements
<1>11. Position(q, w) = j /\ Len(k) <= Len(q) /\ Len(k) \in Nat /\ Len(q) \in Nat
  <2>1. Len(k) <= Len(q) /\ Len(k) \in Nat /\ Len(q) \in Nat
    BY <1>1, <1>2, <1>5
  <2>2. j \in 1..Len(q) /\ q[j] = w
    BY <1>5, <1>10, <2>1
  <2> QED BY <1>2, <2>1, <2>2, PositionOf
<1>12. Position(q, v) \in 1..Len(q) /\ q[Position(q, v)] = v
  BY <1>2, <1>8, PositionFacts
<1>13. Position(q, v) \in 1..Len(k) /\ k[Position(q, v)] = v
  BY <1>5, <1>9, <1>10, <1>11, <1>12
<1> QED BY <1>7, <1>13 DEF Elements

\* A window that is given a tile takes it from one other at most.
LEMMA TakeTileEvictsOne ==
  ASSUME NEW s \in Slots, NEW id \in Nat, NEW focus, NEW fallback \in {1, Len(s.tiled)},
         Len(s.tiled) <= s.capacity
  PROVE  \E x : Elements(s.tiled) \ {x} \subseteq Elements(TakeTile(s, id, focus, fallback))
<1> DEFINE a == s.tiled
<1> DEFINE t == TakeTile(s, id, focus, fallback)
<1>1. a \in Seq(Nat) /\ s.capacity \in Nat /\ Len(a) \in Nat
  BY DEF Slots
<1>2. CASE Len(a) < s.capacity
  <2>1. t = Append(a, id)
    BY <1>2 DEF TakeTile
  <2>2. Elements(Append(a, id)) = Elements(a) \cup {id}
    BY <1>1, AppendFacts
  <2> QED BY <2>1, <2>2
<1>3. CASE ~(Len(a) < s.capacity) /\ s.capacity = 0
  <2>1. t = a
    BY <1>3 DEF TakeTile
  <2> QED BY <2>1
<1>4. CASE ~(Len(a) < s.capacity) /\ s.capacity # 0
  <2>1. Len(a) >= 1
    BY <1>1, <1>4
  <2>2. PICK i \in 1..Len(a) : t = [a EXCEPT ![i] = id]
    <3>1. CASE focus \in Elements(a)
      <4>1. Position(a, focus) \in 1..Len(a)
        BY <1>1, <3>1, PositionFacts
      <4> QED BY <4>1, <3>1, <1>4 DEF TakeTile, Swap
    <3>2. CASE focus \notin Elements(a)
      <4>1. fallback \in 1..Len(a)
        BY <2>1, <1>1
      <4> QED BY <4>1, <3>2, <1>4 DEF TakeTile
    <3> QED BY <3>1, <3>2
  <2> HIDE DEF t, a
  <2>3. Len(t) = Len(a) /\ \A j \in 1..Len(a) : t[j] = IF j = i THEN id ELSE a[j]
    BY <1>1, <2>2, ExceptSeq
  <2>4. Elements(a) \ {a[i]} \subseteq Elements(t)
    BY <2>3 DEF Elements
  <2> QED BY <2>4 DEF a, t
<1> QED BY <1>2, <1>3, <1>4

\* The same bar, no tile freed: what opening and activating leave to show.
LEMMA GrownAllowed ==
  ASSUME NEW old, NEW new, GoodSlot(old), GoodSlot(new), new.capacity = old.capacity,
         Len(old.order) <= Len(new.order),
         \A i \in 1..Len(old.order) : new.order[i] = old.order[i],
         NEW x, Elements(old.tiled) \ {x} \subseteq Elements(new.tiled)
  PROVE  Allowed(old, new)
<1>1. /\ old.order \in Seq(Nat) /\ new.order \in Seq(Nat) /\ NoDuplicates(new.order)
      /\ Elements(old.tiled) \subseteq Elements(old.order) /\ old.capacity \in Nat
  BY DEF GoodSlot, Slots, TilesOK
<1>2. \A a \in Elements(old.order) : Position(new.order, a) = Position(old.order, a)
  BY <1>1, PrefixKeepsPlace
<1>3. OrderKept(old, new)
  BY <1>2 DEF OrderKept
<1>4. Elements(old.order) \subseteq Elements(new.order)
  <2> SUFFICES ASSUME NEW i \in 1..Len(old.order)
               PROVE  old.order[i] \in Elements(new.order)
    BY DEF Elements
  <2>1. i \in 1..Len(new.order)
    BY <1>1
  <2> QED BY <2>1 DEF Elements
<1>5. ServedInOrder(old, new)
  BY <1>1, <1>4 DEF ServedInOrder, Freed
<1>6. OneEvicted(old, new)
  <2> DEFINE S == (Elements(old.tiled) \ Elements(new.tiled)) \cap Elements(new.order)
  <2>1. S \subseteq {x}
    OBVIOUS
  <2> HIDE DEF S
  <2>2. Cardinality(S) <= 1
    BY <2>1, AtMostOne
  <2> QED BY <2>2 DEF OneEvicted, S
<1>7. LeadingKept(old, new)
  BY DEF LeadingKept
<1> QED BY <1>3, <1>5, <1>6, <1>7 DEF Allowed

\* A slot that nothing is done to.
LEMMA SameAllowed ==
  ASSUME NEW s, GoodSlot(s)
  PROVE  Allowed(s, s)
<1>1. s.order \in Seq(Nat) /\ Len(s.order) \in Nat
  BY DEF GoodSlot, Slots
<1> QED BY <1>1, GrownAllowed

\* set_capacity on an output: the leading tiles stay, the bar moves up.
LEMMA ResizedAllowed ==
  ASSUME NEW old, GoodSlot(old), NEW c \in Nat
  PROVE  LET new == FillFreeTiles([old EXCEPT !.capacity = c, !.tiled = Take(@, c)])
         IN  GoodSlot(new) /\ Allowed(old, new)
<1> DEFINE t == Take(old.tiled, c)
<1> DEFINE b == [order |-> old.order, tiled |-> t, capacity |-> c]
<1> DEFINE new == FillFreeTiles(b)
<1>1. /\ old \in Slots /\ old.order \in Seq(Nat) /\ old.tiled \in Seq(Nat) /\ old.capacity \in Nat
      /\ NoDuplicates(old.order) /\ NoDuplicates(old.tiled)
      /\ Elements(old.tiled) \subseteq Elements(old.order)
      /\ Len(old.tiled) \in Nat /\ Len(old.tiled) <= old.capacity
  BY DEF GoodSlot, Slots, TilesOK
<1>2. /\ t \in Seq(Nat) /\ NoDuplicates(t) /\ Elements(t) \subseteq Elements(old.tiled)
      /\ Len(t) = IF c < Len(old.tiled) THEN c ELSE Len(old.tiled)
      /\ \A i \in 1..Len(t) : t[i] = old.tiled[i]
      /\ Len(old.tiled) <= c => Elements(t) = Elements(old.tiled)
  BY <1>1, TakeFacts
<1>3. [old EXCEPT !.capacity = c, !.tiled = Take(@, c)] = b
  BY <1>1, <1>2, SlotWithCapacity
<1> HIDE DEF t
<1>4. Len(t) \in Nat /\ Len(t) <= c
  BY <1>1, <1>2
<1>5. b \in Slots /\ TilesOK(b) /\ b.order = old.order /\ b.tiled = t /\ b.capacity = c
  BY <1>1, <1>2, <1>4 DEF Slots, TilesOK
<1> HIDE DEF b
<1>6. /\ GoodSlot(new) /\ new.order = old.order /\ new.capacity = c
      /\ Elements(t) \subseteq Elements(new.tiled)
      /\ new.tiled \in Seq(Nat) /\ Len(t) <= Len(new.tiled) /\ Len(new.tiled) <= c
      /\ \A i \in 1..Len(t) : new.tiled[i] = t[i]
  <2>1. /\ GoodSlot(new) /\ new.order = b.order /\ new.capacity = b.capacity
        /\ Elements(b.tiled) \subseteq Elements(new.tiled)
    BY <1>5, FillFacts
  <2>2. /\ new.tiled \in Seq(Nat) /\ Len(b.tiled) <= Len(new.tiled)
        /\ \A i \in 1..Len(b.tiled) : new.tiled[i] = b.tiled[i]
    BY <1>5, FillExtends
  <2> QED BY <1>5, <2>1, <2>2 DEF GoodSlot, TilesOK
<1>7. OrderKept(old, new)
  BY <1>6 DEF OrderKept
<1>8. ServedInOrder(old, new)
  <2> SUFFICES ASSUME c > old.capacity,
                      NEW v \in Elements(old.order), NEW w \in Elements(old.order),
                      Position(old.order, v) < Position(old.order, w),
                      w \in Elements(new.tiled) \ Elements(old.tiled),
                      v \notin Elements(old.tiled)
               PROVE  v \in Elements(new.tiled)
    BY <1>1, <1>6 DEF ServedInOrder, Freed
  <2>1. Elements(t) = Elements(old.tiled)
    BY <1>1, <1>2
  <2> QED BY <1>5, <2>1, FillServesOldest
<1>9. OneEvicted(old, new)
  <2> SUFFICES ASSUME c = old.capacity
               PROVE  Cardinality((Elements(old.tiled) \ Elements(new.tiled))
                                    \cap Elements(new.order)) <= 1
    BY <1>6 DEF OneEvicted
  <2>1. Elements(old.tiled) \subseteq Elements(new.tiled)
    BY <1>1, <1>2, <1>6
  <2> DEFINE S == (Elements(old.tiled) \ Elements(new.tiled)) \cap Elements(new.order)
  <2>2. S \subseteq {0}
    BY <2>1
  <2> HIDE DEF S
  <2>3. Cardinality(S) <= 1
    BY <2>2, AtMostOne
  <2> QED BY <2>3 DEF S
<1>10. LeadingKept(old, new)
  <2> DEFINE n == IF Len(old.tiled) < Len(new.tiled) THEN Len(old.tiled) ELSE Len(new.tiled)
  <2>1. Len(new.tiled) \in Nat
    BY <1>6
  <2>2. n \in Nat /\ n <= Len(old.tiled) /\ n <= Len(new.tiled) /\ n <= Len(t)
    BY <1>1, <1>2, <1>6, <2>1
  <2> HIDE DEF n, new
  <2>3. ASSUME NEW i \in 1..n PROVE old.tiled[i] = new.tiled[i]
    <3>1. i \in 1..Len(t)
      BY <1>4, <2>2
    <3> QED BY <1>2, <1>6, <3>1
  <2>4. Take(old.tiled, n) = Take(new.tiled, n)
    BY <1>1, <1>6, <2>2, <2>3, TakeSame
  <2> QED BY <2>4 DEF LeadingKept, n
<1> HIDE DEF new
<1>11. Allowed(old, new)
  BY <1>7, <1>8, <1>9, <1>10 DEF Allowed
<1> QED BY <1>3, <1>6, <1>11, Zenon DEF new

\* Windows leave the bar and its tiles: whoever moves up is the oldest.
LEMMA ThinnedAllowed ==
  ASSUME NEW slots, slots \in [DOMAIN slots -> Slots], \A x \in DOMAIN slots : GoodSlot(slots[x]),
         NEW gone, NEW o \in DOMAIN slots
  PROVE  Allowed(slots[o], WithoutWindows(slots, gone)[o])
<1> DEFINE old == slots[o]
<1> DEFINE new == WithoutWindows(slots, gone)[o]
<1> DEFINE order == Retain(old.order, Elements(old.order) \ gone)
<1> DEFINE tiled == Retain(old.tiled, Elements(old.tiled) \ gone)
<1> DEFINE b == [order |-> order, tiled |-> tiled, capacity |-> old.capacity]
<1>1. GoodSlot(old)
  OBVIOUS
<1>2. /\ old \in Slots /\ old.order \in Seq(Nat) /\ old.tiled \in Seq(Nat) /\ old.capacity \in Nat
      /\ NoDuplicates(old.order) /\ NoDuplicates(old.tiled)
      /\ Elements(old.tiled) \subseteq Elements(old.order)
      /\ Len(old.tiled) \in Nat /\ Len(old.tiled) <= old.capacity
  BY <1>1 DEF GoodSlot, Slots, TilesOK
<1>3. new = FillFreeTiles([old EXCEPT !.order = order, !.tiled = tiled])
  BY DEF WithoutWindows
<1> HIDE DEF old, new
<1>4. /\ order \in Seq(Nat) /\ NoDuplicates(order) /\ Elements(order) = Elements(old.order) \ gone
  BY <1>2, RetainFacts
<1>5. /\ tiled \in Seq(Nat) /\ NoDuplicates(tiled) /\ Len(tiled) <= Len(old.tiled)
      /\ Elements(tiled) = Elements(old.tiled) \ gone
  BY <1>2, RetainFacts
<1>6. \A a, c \in Elements(old.order) \ gone :
        Position(old.order, a) < Position(old.order, c) => Position(order, a) < Position(order, c)
  BY <1>2, RetainKeepsOrder
<1> HIDE DEF order, tiled
<1>7. [old EXCEPT !.order = order, !.tiled = tiled] = b
  BY <1>2, <1>4, <1>5, SlotWithBar
<1>8. Len(tiled) <= old.capacity
  <2>1. Len(tiled) \in Nat
    BY <1>5
  <2> QED BY <2>1, <1>2, <1>5
<1>9. b \in Slots /\ TilesOK(b) /\ b.order = order /\ b.tiled = tiled /\ b.capacity = old.capacity
  BY <1>2, <1>4, <1>5, <1>8 DEF Slots, TilesOK
<1> HIDE DEF b
<1>10. /\ GoodSlot(FillFreeTiles(b)) /\ FillFreeTiles(b).order = b.order
       /\ FillFreeTiles(b).capacity = b.capacity
       /\ Elements(b.tiled) \subseteq Elements(FillFreeTiles(b).tiled)
  BY <1>9, FillFacts
<1>11. new = FillFreeTiles(b)
  BY <1>3, <1>7, Zenon
<1>12. OrderKept(old, new)
  BY <1>4, <1>6, <1>9, <1>10, <1>11 DEF OrderKept
<1>13. ServedInOrder(old, new)
  <2> SUFFICES ASSUME NEW v \in Elements(old.order) \cap Elements(new.order),
                      NEW w \in Elements(old.order) \cap Elements(new.order),
                      Position(old.order, v) < Position(old.order, w),
                      w \in Elements(new.tiled) \ Elements(old.tiled),
                      v \notin Elements(old.tiled)
               PROVE  v \in Elements(new.tiled)
    BY DEF ServedInOrder, Freed
  <2>1. /\ v \in Elements(b.order) /\ w \in Elements(b.order)
        /\ v \notin Elements(b.tiled) /\ w \in Elements(FillFreeTiles(b).tiled) \ Elements(b.tiled)
    BY <1>5, <1>9, <1>10, <1>11
  <2>2. Position(b.order, v) < Position(b.order, w)
    BY <1>4, <1>6, <1>9, <2>1
  <2> QED BY <1>9, <1>11, <2>1, <2>2, FillServesOldest
<1>14. OneEvicted(old, new)
  <2> DEFINE S == (Elements(old.tiled) \ Elements(new.tiled)) \cap Elements(new.order)
  <2>1. S \subseteq {0}
    BY <1>4, <1>5, <1>9, <1>10, <1>11
  <2> HIDE DEF S
  <2>2. Cardinality(S) <= 1
    BY <2>1, AtMostOne
  <2> QED BY <2>2 DEF OneEvicted, S
<1>15. LeadingKept(old, new)
  BY <1>9, <1>10, <1>11 DEF LeadingKept
<1>16. Allowed(old, new)
  BY <1>12, <1>13, <1>14, <1>15 DEF Allowed
<1> QED BY <1>16 DEF old, new

\* The output a migration empties.
LEMMA EmptiedAllowed ==
  ASSUME NEW old, NEW new, new.order = << >>, new.capacity = old.capacity
  PROVE  Allowed(old, new)
<1>1. Elements(new.order) = {}
  BY DEF Elements
<1>2. OneEvicted(old, new)
  <2> DEFINE S == (Elements(old.tiled) \ Elements(new.tiled)) \cap Elements(new.order)
  <2>1. S \subseteq {0}
    BY <1>1
  <2> HIDE DEF S
  <2>2. Cardinality(S) <= 1
    BY <2>1, AtMostOne
  <2> QED BY <2>2 DEF OneEvicted, S
<1> QED BY <1>1, <1>2 DEF Allowed, OrderKept, ServedInOrder, Freed, LeadingKept

\* The output a migration moves windows to: they queue behind its own.
LEMMA JoinedAllowed ==
  ASSUME NEW old, GoodSlot(old), NEW bar \in Seq(Nat), NoDuplicates(bar),
         Elements(bar) \cap Elements(old.order) = {}
  PROVE  LET new == FillFreeTiles([old EXCEPT !.order = @ \o bar])
         IN  GoodSlot(new) /\ Allowed(old, new)
<1> DEFINE order == old.order \o bar
<1> DEFINE b == [old EXCEPT !.order = order]
<1> DEFINE new == FillFreeTiles(b)
<1>1. /\ old \in Slots /\ old.order \in Seq(Nat) /\ NoDuplicates(old.order) /\ TilesOK(old)
  BY DEF GoodSlot, Slots, TilesOK
<1>2. /\ order \in Seq(Nat) /\ NoDuplicates(order)
      /\ Elements(order) = Elements(old.order) \cup Elements(bar)
      /\ Len(order) = Len(old.order) + Len(bar)
  BY <1>1, ConcatFacts
<1>3. \A i \in 1..Len(old.order) : order[i] = old.order[i]
  BY <1>1
<1>4. Len(old.order) \in Nat /\ Len(bar) \in Nat
  BY <1>1
<1> HIDE DEF order
<1>5. b \in Slots /\ b.order = order /\ b.tiled = old.tiled /\ b.capacity = old.capacity
  BY <1>1, <1>2 DEF Slots
<1> HIDE DEF b
<1>6. TilesOK(b)
  BY <1>1, <1>2, <1>5 DEF TilesOK
<1>7. /\ GoodSlot(new) /\ new.order = order /\ new.capacity = old.capacity
      /\ Elements(old.tiled) \subseteq Elements(new.tiled)
  BY <1>5, <1>6, FillFacts
<1> HIDE DEF new
<1>8. Elements(old.tiled) \ {0} \subseteq Elements(new.tiled) /\ Len(old.order) <= Len(new.order)
  BY <1>2, <1>4, <1>7
<1>9. Allowed(old, new)
  BY <1>3, <1>7, <1>8, GrownAllowed
<1>10. new = FillFreeTiles([old EXCEPT !.order = @ \o bar])
  BY DEF new, b, order
<1> QED BY <1>7, <1>9, <1>10, Zenon

----------------------------------------------------------------------------
(* What a method may do to every output, to the focus and to the handles   *)

SlotsAllowed(m, n) ==
  \A o \in DOMAIN m.slots : o \in DOMAIN n.slots /\ Allowed(m.slots[o], n.slots[o])

FocusAllowed(m, n) ==
  m.focus # NoWindow /\ n.focus = NoWindow => \A o \in DOMAIN n.slots : n.slots[o].tiled = << >>

HandlesAllowed(m, n) ==
  \A w \in Live(n) \ Live(m) : w >= m.next_id /\ w < n.next_id

StepAllowed(m, n) == SlotsAllowed(m, n) /\ FocusAllowed(m, n) /\ HandlesAllowed(m, n)

LEMMA GoodParts ==
  ASSUME NEW m, Good(m)
  PROVE  /\ ModelTypeOK(m) /\ SlotsOK(m) /\ BarsOK(m) /\ HandlesOK(m)
         /\ m.windows \in [Live(m) -> Windows] /\ Live(m) = DOMAIN m.windows
         /\ Live(m) \subseteq Nat /\ m.next_id \in Nat /\ NoWindow \notin Live(m)
         /\ m.slots \in [DOMAIN m.slots -> Slots] /\ DOMAIN m.slots \subseteq Outputs
         /\ \A o \in DOMAIN m.slots : GoodSlot(m.slots[o])
         /\ \A o \in Outputs : GoodSlot(SlotMut(m, o))
<1>1. ModelTypeOK(m) /\ SlotsOK(m) /\ BarsOK(m) /\ HandlesOK(m)
  BY DEF Good
<1>2. /\ m.windows \in [Live(m) -> Windows] /\ Live(m) = DOMAIN m.windows
      /\ Live(m) \subseteq Nat /\ m.next_id \in Nat
      /\ m.slots \in [DOMAIN m.slots -> Slots] /\ DOMAIN m.slots \subseteq Outputs
  BY <1>1, ModelParts
<1>3. \A o \in DOMAIN m.slots : GoodSlot(m.slots[o])
  BY <1>1, <1>2 DEF GoodSlot, SlotsOK
<1>4. \A o \in Outputs : GoodSlot(SlotMut(m, o))
  BY <1>1, SlotMutFacts DEF GoodSlot
<1> QED BY <1>1, <1>2, <1>3, <1>4

\* A slot written back that its own method may write.
LEMMA WrittenAllowed ==
  ASSUME NEW m, Good(m), NEW o \in Outputs, NEW s, GoodSlot(s), Allowed(SlotMut(m, o), s)
  PROVE  /\ SlotsAllowed(m, WithSlot(m, o, s))
         /\ WithSlot(m, o, s).focus = m.focus
<1>1. ModelTypeOK(m) /\ s \in Slots /\ \A x \in DOMAIN m.slots : GoodSlot(m.slots[x])
  BY GoodParts DEF GoodSlot
<1>2. /\ WithSlot(m, o, s).focus = m.focus
      /\ DOMAIN WithSlot(m, o, s).slots = DOMAIN m.slots \cup {o}
      /\ WithSlot(m, o, s).slots[o] = s
      /\ \A x \in DOMAIN m.slots \ {o} : WithSlot(m, o, s).slots[x] = m.slots[x]
  BY <1>1, WithSlotFacts
<1>3. \A x \in DOMAIN m.slots : Allowed(m.slots[x], m.slots[x])
  BY <1>1, SameAllowed
<1>4. o \in DOMAIN m.slots => SlotMut(m, o) = m.slots[o]
  BY DEF SlotMut
<1> QED BY <1>2, <1>3, <1>4 DEF SlotsAllowed

LEMMA SetCapacityAllowed ==
  ASSUME NEW m, Good(m), NEW o \in Outputs, NEW c \in Nat
  PROVE  StepAllowed(m, SetCapacity(m, o, c))
<1> DEFINE old == SlotMut(m, o)
<1> DEFINE s == FillFreeTiles([old EXCEPT !.capacity = c, !.tiled = Take(@, c)])
<1> DEFINE n == SetCapacity(m, o, c)
<1>1. GoodSlot(old) /\ ModelTypeOK(m)
  BY GoodParts
<1>2. n = WithSlot(m, o, s)
  BY Zenon DEF SetCapacity
<1>3. GoodSlot(s) /\ Allowed(old, s)
  <2> HIDE DEF old
  <2> QED BY <1>1, ResizedAllowed
<1> HIDE DEF s, n, old
<1>4. SlotsAllowed(m, n) /\ n.focus = m.focus
  BY <1>2, <1>3, WrittenAllowed DEF old
<1>5. n.windows = m.windows
  BY <1>1, Rearranging DEF Rearranged, n
<1>6. FocusAllowed(m, n) /\ HandlesAllowed(m, n)
  BY <1>4, <1>5 DEF FocusAllowed, HandlesAllowed, Live
<1> QED BY <1>4, <1>6 DEF StepAllowed, n

\* What a slot and the focus are once they are written.
LEMMA WhatIsWritten ==
  ASSUME NEW m, ModelTypeOK(m), NEW o, NEW s, NEW f
  PROVE  LET n == [WithSlot(m, o, s) EXCEPT !.focus = f]
         IN  /\ n.focus = f /\ o \in DOMAIN n.slots /\ n.slots[o] = s
             /\ \A x \in DOMAIN m.slots \ {o} : x \in DOMAIN n.slots /\ n.slots[x] = m.slots[x]
<1>1. m = [windows |-> m.windows, created |-> m.created, slots |-> m.slots,
           focus |-> m.focus, next_id |-> m.next_id]
  BY ModelParts
<1> DEFINE slots == [x \in DOMAIN m.slots \cup {o} |-> IF x = o THEN s ELSE m.slots[x]]
<1> DEFINE created == IF o \in DOMAIN m.slots THEN m.created ELSE Append(m.created, o)
<1> DEFINE n == [WithSlot(m, o, s) EXCEPT !.focus = f]
<1>2. WithSlot(m, o, s) = [m EXCEPT !.slots = slots, !.created = created]
  BY DEF WithSlot
<1>3. /\ o \in DOMAIN slots /\ slots[o] = s
      /\ \A x \in DOMAIN m.slots \ {o} : x \in DOMAIN slots /\ slots[x] = m.slots[x]
  OBVIOUS
<1> HIDE DEF slots, created
<1>4. WithSlot(m, o, s) = [windows |-> m.windows, created |-> created, slots |-> slots,
                           focus |-> m.focus, next_id |-> m.next_id]
  BY <1>1, <1>2
<1>5. n.slots = slots /\ n.focus = f
  BY <1>4
<1> QED BY <1>3, <1>5

LEMMA OpenToplevelAllowed ==
  ASSUME NEW m, Good(m), NEW o \in Outputs
  PROVE  StepAllowed(m, OpenToplevel(m, o))
<1> DEFINE id == m.next_id
<1> DEFINE p == PushWindow(m, [role |-> "toplevel", parent |-> NoWindow, output |-> o])
<1> DEFINE old == SlotMut(m, o)
<1> DEFINE tiled == TakeTile(old, id, m.focus, Len(old.tiled))
<1> DEFINE s == [old EXCEPT !.order = Append(@, id), !.tiled = tiled]
<1> DEFINE n == OpenToplevel(m, o)
<1>1. /\ ModelTypeOK(m) /\ HandlesOK(m) /\ id \in Nat /\ NoWindow \notin Nat
      /\ GoodSlot(old) /\ \A x \in DOMAIN m.slots : GoodSlot(m.slots[x])
  <2> HIDE DEF n, s
  <2> QED BY GoodParts
<1>2. n = [WithSlot(p, o, s) EXCEPT !.focus = id]
  BY Zenon DEF OpenToplevel
<1>3. ModelTypeOK(p) /\ p.slots = m.slots
  <2>1. [role |-> "toplevel", parent |-> NoWindow, output |-> o] \in Windows
    BY DEF Windows, Roles
  <2> QED BY <1>1, <2>1, PushWindowFacts
<1> HIDE DEF id, p
<1>4. /\ n.focus = id /\ o \in DOMAIN n.slots /\ n.slots[o] = s
      /\ \A x \in DOMAIN m.slots \ {o} : x \in DOMAIN n.slots /\ n.slots[x] = m.slots[x]
  <2> HIDE DEF s, n
  <2> QED BY <1>2, <1>3, WhatIsWritten
<1>5. GoodSlot(s)
  <2>1. Good(n)
    BY OpenToplevelGood
  <2> HIDE DEF s, n
  <2> QED BY <1>4, <2>1, GoodParts
<1>6. Allowed(old, s)
  <2>1. /\ old \in Slots /\ old.order \in Seq(Nat) /\ old.tiled \in Seq(Nat)
        /\ Len(old.tiled) <= old.capacity
    BY <1>1 DEF GoodSlot, Slots, TilesOK
  <2> HIDE DEF old
  <2>2. PICK x : Elements(old.tiled) \ {x} \subseteq Elements(tiled)
    BY <1>1, <2>1, TakeTileEvictsOne
  <2> HIDE DEF tiled
  <2>3. /\ s.order = Append(old.order, id) /\ s.tiled = tiled /\ s.capacity = old.capacity
    BY <2>1 DEF Slots
  <2> HIDE DEF s
  <2>4. /\ Len(old.order) <= Len(s.order)
        /\ \A i \in 1..Len(old.order) : s.order[i] = old.order[i]
    BY <1>1, <2>1, <2>3
  <2>5. GoodSlot(old)
    BY <1>1
  <2> QED BY <1>5, <2>2, <2>3, <2>4, <2>5, GrownAllowed
<1> HIDE DEF s
<1>7. SlotsAllowed(m, n)
  <2>1. o \in DOMAIN m.slots => old = m.slots[o]
    BY DEF SlotMut
  <2>2. \A x \in DOMAIN m.slots : Allowed(m.slots[x], m.slots[x])
    BY <1>1, SameAllowed
  <2> HIDE DEF old, n
  <2> QED BY <1>4, <1>6, <2>1, <2>2 DEF SlotsAllowed
<1>8. HandlesAllowed(m, n)
  <2>1. Live(n) = Live(m) \cup {m.next_id} /\ n.next_id = m.next_id + 1
    BY OpenToplevelAdds
  <2> QED BY <1>1, <2>1 DEF HandlesAllowed, id
<1>9. FocusAllowed(m, n)
  BY <1>1, <1>4 DEF FocusAllowed
<1> QED BY <1>7, <1>8, <1>9 DEF StepAllowed

\* A method that moves no tile.
LEMMA TilesUntouched ==
  ASSUME NEW m, Good(m), NEW n, n.slots = m.slots
  PROVE  SlotsAllowed(m, n)
<1>1. \A o \in DOMAIN m.slots : Allowed(m.slots[o], m.slots[o])
  BY GoodParts, SameAllowed
<1> QED BY <1>1 DEF SlotsAllowed

LEMMA OpenChildAllowed ==
  ASSUME NEW m, Good(m), NEW parent \in Live(m), NEW role \in {"dialog", "popup"}
  PROVE  StepAllowed(m, OpenChild(m, parent, role))
<1> DEFINE n == OpenChild(m, parent, role)
<1>1. /\ m.next_id \in Nat /\ n.next_id = m.next_id + 1 /\ Live(n) = Live(m) \cup {m.next_id}
      /\ n.slots = m.slots /\ (role = "popup" => n.focus = m.focus)
  BY OpenChildAdds, GoodParts
<1>2. role = "dialog" => n.focus \in Nat
  <2> SUFFICES ASSUME role = "dialog" PROVE n.focus \in Nat
    OBVIOUS
  <2> DEFINE w == [role |-> role, parent |-> parent, output |-> m.windows[parent].output]
  <2>1. n = [PushWindow(m, w) EXCEPT !.focus = m.next_id]
    BY DEF OpenChild
  <2>2. w \in Windows
    BY GoodParts DEF Windows, Roles
  <2> HIDE DEF w, n
  <2>3. ModelTypeOK(PushWindow(m, w))
    BY <2>2, GoodParts, PushWindowFacts
  <2>4. n.focus = m.next_id
    BY <2>1, <2>3, SlotWritten
  <2> QED BY <1>1, <2>4
<1> HIDE DEF n
<1>3. SlotsAllowed(m, n)
  BY <1>1, TilesUntouched
<1>4. FocusAllowed(m, n) /\ HandlesAllowed(m, n)
  BY <1>1, <1>2 DEF FocusAllowed, HandlesAllowed
<1> QED BY <1>3, <1>4 DEF StepAllowed, n

LEMMA FocusStepAllowed ==
  ASSUME NEW m, Good(m), NEW f \in Live(m)
  PROVE  StepAllowed(m, Focus(m, f))
<1>1. f # NoWindow /\ ModelTypeOK(m)
  BY GoodParts
<1>2. Focus(m, f).slots = m.slots /\ Focus(m, f).focus = f /\ Focus(m, f).windows = m.windows
  BY <1>1, SlotWritten DEF Focus
<1>3. SlotsAllowed(m, Focus(m, f))
  BY <1>2, TilesUntouched
<1>4. FocusAllowed(m, Focus(m, f)) /\ HandlesAllowed(m, Focus(m, f))
  BY <1>1, <1>2 DEF FocusAllowed, HandlesAllowed, Live
<1> QED BY <1>3, <1>4 DEF StepAllowed

LEMMA ActivateAllowed ==
  ASSUME NEW m, Good(m), NEW id \in Live(m)
  PROVE  StepAllowed(m, Activate(m, id))
<1> DEFINE o == m.windows[id].output
<1> DEFINE old == SlotMut(m, o)
<1> DEFINE tiled == IF id \in Elements(old.tiled) THEN old.tiled ELSE TakeTile(old, id, m.focus, 1)
<1> DEFINE s == [old EXCEPT !.tiled = tiled]
<1> DEFINE n == Activate(m, id)
<1>1. /\ ModelTypeOK(m) /\ id \in Nat /\ id # NoWindow /\ m.windows[id] \in Windows
      /\ \A x \in DOMAIN m.slots : GoodSlot(m.slots[x])
  BY GoodParts
<1>2. n.windows = m.windows
  BY <1>1, Rearranging DEF Rearranged
<1>3. SlotsAllowed(m, n) /\ n.focus = id
  <2>1. CASE ~IsToplevel(m, id)
    <3>1. n = [m EXCEPT !.focus = id]
      BY <2>1 DEF Activate
    <3> HIDE DEF n
    <3>2. n.slots = m.slots /\ n.focus = id
      BY <1>1, <3>1, SlotWritten
    <3> QED BY <3>2, TilesUntouched
  <2>2. CASE IsToplevel(m, id)
    <3>1. o \in Outputs /\ o \in DOMAIN m.slots
      BY <1>1, <2>2, GoodParts DEF BarsOK, Windows
    <3>2. old = m.slots[o] /\ GoodSlot(old)
      BY <1>1, <3>1 DEF SlotMut
    <3>3. n = [WithSlot(m, o, s) EXCEPT !.focus = id]
      BY <2>2, Zenon DEF Activate
    <3>4. /\ n.focus = id /\ o \in DOMAIN n.slots /\ n.slots[o] = s
          /\ \A x \in DOMAIN m.slots \ {o} : x \in DOMAIN n.slots /\ n.slots[x] = m.slots[x]
      <4> HIDE DEF s, n, o
      <4> QED BY <1>1, <3>3, WhatIsWritten
    <3>5. GoodSlot(s)
      <4>1. Good(n)
        BY ActivateGood
      <4> HIDE DEF s, n
      <4> QED BY <3>4, <4>1, GoodParts
    <3>6. Allowed(old, s)
      <4> HIDE DEF old, s
      <4>1. /\ old \in Slots /\ old.order \in Seq(Nat) /\ Len(old.order) \in Nat
            /\ Len(old.tiled) <= old.capacity
        <5>1. GoodSlot(old)
          BY <3>2
        <5> QED BY <5>1 DEF GoodSlot, Slots, TilesOK
      <4>2. \E x : Elements(old.tiled) \ {x} \subseteq Elements(TakeTile(old, id, m.focus, 1))
        BY <1>1, <4>1, TakeTileEvictsOne
      <4>3. \E x : Elements(old.tiled) \ {x} \subseteq Elements(tiled)
        <5>1. CASE id \in Elements(old.tiled)
          BY <5>1
        <5>2. CASE id \notin Elements(old.tiled)
          BY <4>2, <5>2
        <5> QED BY <5>1, <5>2
      <4> HIDE DEF tiled
      <4>4. s.order = old.order /\ s.tiled = tiled /\ s.capacity = old.capacity
        BY <4>1 DEF Slots, s
      <4>5. PICK x : Elements(old.tiled) \ {x} \subseteq Elements(s.tiled)
        BY <4>3, <4>4
      <4>6. GoodSlot(old) /\ Len(old.order) <= Len(s.order)
            /\ \A i \in 1..Len(old.order) : s.order[i] = old.order[i]
        BY <3>2, <4>1, <4>4
      <4> QED BY <3>5, <4>4, <4>5, <4>6, GrownAllowed
    <3>7. \A x \in DOMAIN m.slots : Allowed(m.slots[x], m.slots[x])
      BY <1>1, SameAllowed
    <3> HIDE DEF old, s, n, o
    <3> QED BY <3>2, <3>4, <3>6, <3>7 DEF SlotsAllowed
  <2> QED BY <2>1, <2>2
<1> HIDE DEF n
<1>4. FocusAllowed(m, n) /\ HandlesAllowed(m, n)
  BY <1>1, <1>2, <1>3 DEF FocusAllowed, HandlesAllowed, Live
<1> QED BY <1>3, <1>4 DEF StepAllowed, n

LEMMA UnchangedAllowed ==
  ASSUME NEW m, Good(m)
  PROVE  StepAllowed(m, m)
BY TilesUntouched DEF StepAllowed, FocusAllowed, HandlesAllowed

LEMMA CycleAllowed ==
  ASSUME NEW m, Good(m), NEW o, NEW forward \in BOOLEAN
  PROVE  StepAllowed(m, CycleFocus(m, o, forward))
<1> DEFINE bar == Bar(m, o)
<1>1. CASE bar = << >>
  BY <1>1, UnchangedAllowed DEF CycleFocus
<1>2. CASE bar # << >>
  <2>1. bar \in Seq(Nat) /\ Elements(bar) \subseteq Live(m)
    BY PlacedAreLive
  <2>2. CycleFocus(m, o, forward) = Activate(m, CycleTarget(bar, m.focus, forward))
    BY <1>2 DEF CycleFocus
  <2> HIDE DEF bar
  <2>3. CycleTarget(bar, m.focus, forward) \in Live(m)
    BY <1>2, <2>1, CycleTargetOnBar
  <2> QED BY <2>2, <2>3, ActivateAllowed
<1> QED BY <1>1, <1>2

LEMMA AdoptAllowed ==
  ASSUME NEW m, Good(m), NEW id, NEW parent, CanAdopt(m, id, parent)
  PROVE  StepAllowed(m, AdoptAsDialog(m, id, parent))
<1> DEFINE d == [m.windows[id] EXCEPT !.role = "dialog", !.parent = parent,
                                      !.output = m.windows[parent].output]
<1> DEFINE windows == [m.windows EXCEPT ![id] = d]
<1> DEFINE slots == WithoutWindows(m.slots, {id})
<1> DEFINE n == AdoptAsDialog(m, id, parent)
<1>1. /\ id \in Live(m) /\ id # NoWindow /\ ModelTypeOK(m)
      /\ m.slots \in [DOMAIN m.slots -> Slots] /\ \A x \in DOMAIN m.slots : GoodSlot(m.slots[x])
  BY GoodParts DEF CanAdopt
<1>2. n = [m EXCEPT !.windows = windows, !.slots = slots, !.focus = id]
  <2>1. id \in Live(m) /\ Live(m) = DOMAIN m.windows
    BY <1>1 DEF Live
  <2> QED BY <2>1, ZenonT(60) DEF AdoptAsDialog
<1>3. m = [windows |-> m.windows, created |-> m.created, slots |-> m.slots,
           focus |-> m.focus, next_id |-> m.next_id]
  BY <1>1, ModelParts
<1>4. Live(n) = Live(m)
  BY AdoptChanges
<1>5. DOMAIN slots = DOMAIN m.slots
  BY DEF WithoutWindows
<1>6. \A x \in DOMAIN m.slots : Allowed(m.slots[x], slots[x])
  BY <1>1, ThinnedAllowed
<1> HIDE DEF windows, slots, n
<1>7. n.slots = slots /\ n.focus = id
  BY <1>2, <1>3
<1> QED BY <1>1, <1>4, <1>5, <1>6, <1>7 DEF StepAllowed, SlotsAllowed, FocusAllowed, HandlesAllowed, n

LEMMA CloseAllowed ==
  ASSUME NEW m, Good(m), NEW id
  PROVE  StepAllowed(m, Close(m, id))
<1> DEFINE doomed == Family(m, id)
<1> DEFINE windows == [w \in DOMAIN m.windows \ doomed |-> m.windows[w]]
<1> DEFINE slots == WithoutWindows(m.slots, doomed)
<1> DEFINE left == [m EXCEPT !.windows = windows, !.slots = slots]
<1> DEFINE n == Close(m, id)
<1>1. /\ m = [windows |-> m.windows, created |-> m.created, slots |-> m.slots,
              focus |-> m.focus, next_id |-> m.next_id]
      /\ m.windows \in [DOMAIN m.windows -> Windows] /\ DOMAIN m.windows \subseteq Nat
      /\ DOMAIN m.slots \subseteq Outputs
      /\ m.created \in Seq(Outputs) /\ Elements(m.created) = DOMAIN m.slots
      /\ m.focus \in Nat \cup {NoWindow} /\ m.next_id \in Nat
      /\ m.slots \in [DOMAIN m.slots -> Slots] /\ \A x \in DOMAIN m.slots : GoodSlot(m.slots[x])
  BY ModelParts, GoodParts DEF Live
<1>2. n = [left EXCEPT !.focus = IF @ \in doomed THEN FirstTiled(left) ELSE @]
  BY DEF Close
<1>3. Live(n) \subseteq Live(m) /\ n.slots = slots
  BY CloseRemoves
<1>4. DOMAIN slots = DOMAIN m.slots /\ slots \in [DOMAIN slots -> Slots]
  BY <1>1, WithoutWindowsFacts DEF GoodSlot
<1>5. \A x \in DOMAIN m.slots : Allowed(m.slots[x], slots[x])
  BY <1>1, ThinnedAllowed
<1> HIDE DEF doomed
<1>6. DOMAIN windows \subseteq Nat /\ windows \in [DOMAIN windows -> Windows]
  <2>1. m.windows \in [DOMAIN m.windows -> Windows]
    BY <1>1
  <2>2. windows \in [DOMAIN windows -> Windows]
    BY <2>1
  <2>3. DOMAIN windows \subseteq Nat
    <3>1. DOMAIN m.windows \subseteq Nat
      BY <1>1
    <3>2. DOMAIN windows = DOMAIN m.windows \ doomed
      OBVIOUS
    <3> HIDE DEF windows
    <3> QED BY <3>1, <3>2
  <2> QED BY <2>2, <2>3
<1> HIDE DEF windows, slots
<1>7. left = [windows |-> windows, created |-> m.created, slots |-> slots,
              focus |-> m.focus, next_id |-> m.next_id]
  <2>1. m = [windows |-> m.windows, created |-> m.created, slots |-> m.slots,
             focus |-> m.focus, next_id |-> m.next_id]
    BY <1>1
  <2>2. left = [m EXCEPT !.windows = windows, !.slots = slots]
    OBVIOUS
  <2> HIDE DEF left
  <2> QED BY <2>1, <2>2
<1>8. ModelTypeOK(left)
  <2>1. ModelTypeOK([windows |-> windows, created |-> m.created, slots |-> slots,
                     focus |-> m.focus, next_id |-> m.next_id])
    BY <1>1, <1>4, <1>6, MakeModel
  <2> HIDE DEF left
  <2> QED BY <1>7, <2>1, Zenon
<1>9. FocusAllowed(m, n)
  <2> SUFFICES ASSUME m.focus # NoWindow, n.focus = NoWindow, NEW o \in DOMAIN slots
               PROVE  slots[o].tiled = << >>
    BY <1>3 DEF FocusAllowed
  <2>1. left.focus = m.focus /\ left.slots = slots
    BY <1>7
  <2> HIDE DEF left, n
  <2>2. n.focus = IF m.focus \in doomed THEN FirstTiled(left) ELSE m.focus
    BY <1>2, <1>7, <2>1
  <2>3. FirstTiled(left) = NoWindow
    BY <2>2
  <2>4. ASSUME NEW x \in DOMAIN slots PROVE NoWindow \notin Elements(slots[x].tiled)
    <3>1. slots[x].tiled \in Seq(Nat)
      BY <1>4 DEF Slots
    <3> QED BY <3>1 DEF Elements
  <2> QED BY <1>8, <2>1, <2>3, <2>4, FirstTiledFacts
<1> HIDE DEF n
<1>10. SlotsAllowed(m, n) /\ HandlesAllowed(m, n)
  BY <1>3, <1>4, <1>5 DEF SlotsAllowed, HandlesAllowed
<1> QED BY <1>9, <1>10 DEF StepAllowed, n

LEMMA MigrateAllowed ==
  ASSUME NEW m, Good(m), NEW from, NEW to \in Outputs
  PROVE  StepAllowed(m, Migrate(m, from, to))
<1>0. CASE from = to \/ from \notin DOMAIN m.slots
  BY <1>0, UnchangedAllowed DEF Migrate
<1> SUFFICES ASSUME from # to, from \in DOMAIN m.slots PROVE StepAllowed(m, Migrate(m, from, to))
  BY <1>0
<1> DEFINE windows == [w \in DOMAIN m.windows |->
                        IF m.windows[w].output = from THEN [m.windows[w] EXCEPT !.output = to]
                        ELSE m.windows[w]]
<1> DEFINE moved == [m EXCEPT !.windows = windows]
<1> DEFINE e == [m.slots[from] EXCEPT !.order = << >>, !.tiled = << >>]
<1> DEFINE emptied == WithSlot(moved, from, e)
<1> DEFINE s == SlotMut(emptied, to)
<1> DEFINE bar == m.slots[from].order
<1> DEFINE f == FillFreeTiles([s EXCEPT !.order = @ \o bar])
<1> DEFINE n == WithSlot(emptied, to, f)
<1>1. /\ ModelTypeOK(m) /\ BarsOK(m) /\ from \in Outputs
      /\ m = [windows |-> m.windows, created |-> m.created, slots |-> m.slots,
              focus |-> m.focus, next_id |-> m.next_id]
      /\ m.slots \in [DOMAIN m.slots -> Slots] /\ \A x \in DOMAIN m.slots : GoodSlot(m.slots[x])
      /\ GoodSlot(SlotMut(m, to))
  BY ModelParts, GoodParts
<1>2. Migrate(m, from, to) = n
  BY DEF Migrate
<1>3. ModelTypeOK(moved) /\ moved.slots = m.slots /\ moved.focus = m.focus
      /\ Live(moved) = Live(m)
  <2>1. /\ m.windows \in [Live(m) -> Windows] /\ Live(m) = DOMAIN m.windows
        /\ Live(m) \subseteq Nat
    BY GoodParts
  <2>2. DOMAIN windows = Live(m) /\ windows \in [Live(m) -> Windows]
    <3>1. ASSUME NEW v \in Windows PROVE [v EXCEPT !.output = to] \in Windows
      BY DEF Windows
    <3> QED BY <2>1, <3>1
  <2> HIDE DEF windows
  <2>3. moved = [windows |-> windows, created |-> m.created, slots |-> m.slots,
                 focus |-> m.focus, next_id |-> m.next_id]
    BY <1>1
  <2> HIDE DEF moved
  <2>4. ModelTypeOK([windows |-> windows, created |-> m.created, slots |-> m.slots,
                     focus |-> m.focus, next_id |-> m.next_id])
    BY <1>1, <2>1, <2>2, MakeModel, ModelParts
  <2>5. ModelTypeOK(moved)
    BY <2>3, <2>4
  <2> QED BY <2>2, <2>3, <2>5 DEF Live
<1> HIDE DEF windows, moved
<1>4. e \in Slots /\ e.order = << >> /\ e.capacity = m.slots[from].capacity
  <2>1. m.slots[from] \in Slots /\ << >> \in Seq(Nat)
    BY <1>1
  <2> QED BY <2>1 DEF Slots
<1>5. Allowed(m.slots[from], e)
  <2> HIDE DEF e
  <2> QED BY <1>4, EmptiedAllowed
<1> HIDE DEF e
<1>6. /\ ModelTypeOK(emptied) /\ Live(emptied) = Live(m) /\ emptied.focus = m.focus
      /\ DOMAIN emptied.slots = DOMAIN m.slots /\ emptied.slots[from] = e
      /\ \A x \in DOMAIN m.slots \ {from} : emptied.slots[x] = m.slots[x]
  <2>1. from \in Outputs /\ ModelTypeOK(moved) /\ e \in Slots
    BY <1>1, <1>3, <1>4
  <2>2. /\ ModelTypeOK(emptied) /\ emptied.windows = moved.windows /\ emptied.focus = moved.focus
        /\ DOMAIN emptied.slots = DOMAIN moved.slots \cup {from} /\ emptied.slots[from] = e
        /\ \A x \in DOMAIN moved.slots \ {from} : emptied.slots[x] = moved.slots[x]
    BY <2>1, WithSlotFacts
  <2> HIDE DEF emptied
  <2> QED BY <1>3, <2>2 DEF Live
<1> HIDE DEF emptied
<1>7. s = SlotMut(m, to)
  BY <1>6 DEF SlotMut
<1> HIDE DEF s
<1>8. bar \in Seq(Nat) /\ NoDuplicates(bar) /\ Elements(bar) \cap Elements(s.order) = {}
  <2>1. bar \in Seq(Nat) /\ NoDuplicates(bar)
    BY <1>1 DEF GoodSlot, Slots, TilesOK
  <2>2. \A w \in Elements(bar) : m.windows[w].output = from
    BY <1>1 DEF BarsOK
  <2>3. \A w \in Elements(s.order) : m.windows[w].output = to
    <3>1. CASE to \in DOMAIN m.slots
      BY <1>1, <1>7, <3>1 DEF BarsOK, SlotMut
    <3>2. CASE to \notin DOMAIN m.slots
      BY <1>7, <3>2 DEF SlotMut, NewSlot, Elements
    <3> QED BY <3>1, <3>2
  <2> QED BY <2>1, <2>2, <2>3
<1>9. GoodSlot(f) /\ Allowed(s, f)
  <2>1. GoodSlot(s)
    BY <1>1, <1>7
  <2> HIDE DEF bar
  <2> QED BY <1>8, <2>1, JoinedAllowed
<1> HIDE DEF f
<1>10. /\ Live(n) = Live(m) /\ n.focus = m.focus
       /\ DOMAIN n.slots = DOMAIN m.slots \cup {to} /\ n.slots[to] = f
       /\ \A x \in DOMAIN m.slots \ {to} : n.slots[x] = emptied.slots[x]
  <2>1. f \in Slots
    BY <1>9 DEF GoodSlot
  <2> QED BY <1>6, <2>1, WithSlotFacts DEF Live
<1> HIDE DEF n
<1>11. SlotsAllowed(m, n)
  <2> SUFFICES ASSUME NEW x \in DOMAIN m.slots PROVE Allowed(m.slots[x], n.slots[x])
    BY <1>10 DEF SlotsAllowed
  <2>1. CASE x = to
    BY <1>7, <1>9, <1>10, <2>1 DEF SlotMut
  <2>2. CASE x = from
    BY <1>5, <1>6, <1>10, <2>2
  <2>3. CASE x # to /\ x # from
    <3>1. n.slots[x] = m.slots[x]
      BY <1>6, <1>10, <2>3
    <3> QED BY <1>1, <3>1, SameAllowed
  <2> QED BY <2>1, <2>2, <2>3
<1>12. FocusAllowed(m, n) /\ HandlesAllowed(m, n)
  BY <1>10 DEF FocusAllowed, HandlesAllowed
<1> QED BY <1>2, <1>11, <1>12 DEF StepAllowed

----------------------------------------------------------------------------
(* The properties of steps                                                 *)

LEMMA NextAllowed == Inv /\ [Next]_vars => StepAllowed(model, model')
<1> SUFFICES ASSUME Inv, [Next]_vars PROVE StepAllowed(model, model')
  OBVIOUS
<1>1. Good(model)
  BY DEF Inv
<1>2. CASE Resize
  <2>1. PICK o \in Outputs, c \in 0..MaxCapacity : model' = SetCapacity(model, o, c)
    BY <1>2 DEF Resize
  <2>2. c \in Nat
    OBVIOUS
  <2> QED BY <1>1, <2>1, <2>2, SetCapacityAllowed
<1>3. CASE OpenWindow
  BY <1>1, <1>3, OpenToplevelAllowed DEF OpenWindow
<1>4. CASE OpenDialogOrPopup
  BY <1>1, <1>4, OpenChildAllowed DEF OpenDialogOrPopup
<1>5. CASE Adopt
  BY <1>1, <1>5, AdoptAllowed DEF Adopt
<1>6. CASE CloseWindow
  BY <1>1, <1>6, CloseAllowed DEF CloseWindow
<1>7. CASE ActivateWindow
  BY <1>1, <1>7, ActivateAllowed DEF ActivateWindow
<1>8. CASE FocusWindow
  BY <1>1, <1>8, FocusStepAllowed DEF FocusWindow
<1>9. CASE Cycle
  BY <1>1, <1>9, CycleAllowed DEF Cycle
<1>10. CASE MigrateOutput
  BY <1>1, <1>10, MigrateAllowed DEF MigrateOutput
<1>11. CASE UNCHANGED vars
  <2>1. model' = model
    BY <1>11 DEF vars
  <2> QED BY <1>1, <2>1, UnchangedAllowed
<1> QED BY <1>2, <1>3, <1>4, <1>5, <1>6, <1>7, <1>8, <1>9, <1>10, <1>11 DEF Next

\* window.rs:100-101: a bar is never reordered and no handle is given out
\* twice, through any call on any number of outputs and windows.
THEOREM OrderAlwaysKept == Spec => OrderIsKept
<1>1. StepAllowed(model, model') =>
        \A o \in DOMAIN model.slots :
          LET old == model.slots[o].order
              new == model'.slots[o].order
          IN  \A a, b \in Elements(old) \cap Elements(new) :
                Position(old, a) < Position(old, b) => Position(new, a) < Position(new, b)
  BY DEF StepAllowed, SlotsAllowed, Allowed, OrderKept
<1>2. StepAllowed(model, model') =>
        \A w \in Live(model') \ Live(model) : w >= model.next_id /\ w < model'.next_id
  BY DEF StepAllowed, HandlesAllowed
<1> QED BY <1>1, <1>2, SpecInv, NextAllowed, PTL
       DEF Spec, OrderIsKept, BarNeverReordered, HandlesNeverReused

\* window.rs:127, 336: where the order of the bar and the time spent waiting
\* name the same window, it is the one that gets a tile that comes free,
\* through any call on any number of outputs and windows.
THEOREM NobodyIsEverOvertaken == WaitingSpec => NobodyIsOvertaken
<1>1. WaitingInit => Inv
  BY InitInv DEF WaitingInit
<1>2. [Next /\ Waited]_waitingVars => [Next]_vars
  BY DEF waitingVars
<1>3. Inv /\ [Next /\ Waited]_waitingVars => Inv'
  BY <1>2, NextInv
<1>4. StepAllowed(model, model') =>
        \A o \in DOMAIN model.slots :
          LET old == model.slots[o]
              new == model'.slots[o]
          IN  Freed(old, new) => \A v, w \in Elements(old.order) \cap Elements(new.order) :
                /\ Position(old.order, v) < Position(old.order, w)
                /\ <<w, v>> \notin longer
                /\ w \in Elements(new.tiled) \ Elements(old.tiled)
                /\ v \notin Elements(old.tiled)
                => v \in Elements(new.tiled)
  BY DEF StepAllowed, SlotsAllowed, Allowed, ServedInOrder
<1> QED BY <1>1, <1>2, <1>3, <1>4, NextAllowed, PTL
       DEF WaitingSpec, NobodyIsOvertaken

\* window.rs:167-168, 180-182, 362, 375-377: a step takes at most one window
\* off the tiles of an output besides those that leave it, a resize keeps the
\* leading tiles, and focus is lost only when nothing is left to focus.
THEOREM ScreenAlwaysKept == Spec => ScreenIsKept
<1>1. StepAllowed(model, model') =>
        \A o \in DOMAIN model.slots :
          LET old == model.slots[o]
              new == model'.slots[o]
          IN  old.capacity = new.capacity
                => Cardinality((Elements(old.tiled) \ Elements(new.tiled))
                                 \cap Elements(new.order)) <= 1
  BY DEF StepAllowed, SlotsAllowed, Allowed, OneEvicted
<1>2. StepAllowed(model, model') =>
        \A o \in DOMAIN model.slots :
          LET old == model.slots[o]
              new == model'.slots[o]
              n   == IF Len(old.tiled) < Len(new.tiled) THEN Len(old.tiled) ELSE Len(new.tiled)
          IN  old.capacity # new.capacity => Take(old.tiled, n) = Take(new.tiled, n)
  BY DEF StepAllowed, SlotsAllowed, Allowed, LeadingKept
<1>3. StepAllowed(model, model') =>
        (model.focus # NoWindow /\ model'.focus = NoWindow
           => \A o \in DOMAIN model'.slots : model'.slots[o].tiled = << >>)
  BY DEF StepAllowed, FocusAllowed
<1> QED BY <1>1, <1>2, <1>3, SpecInv, NextAllowed, PTL
       DEF Spec, ScreenIsKept, AtMostOneEvicted, ResizeKeepsLeadingTiles,
           FocusLostOnlyWhenNothingShown
=============================================================================
