----------------------------- MODULE WindowOps ------------------------------
(***************************************************************************)
(* The window model's data and methods: gostui-core/src/window.rs.  Which  *)
(* toplevels wait on the bottom bar of each output, which hold a tile,     *)
(* which dialogs and popups belong to whom, and who has focus.             *)
(*                                                                         *)
(* A model is the record the Rust struct is, and its methods are operators *)
(* from a model to a model, so that a handler of the compositor can call   *)
(* several of them in one step.  WindowModel makes each method an action;  *)
(* Compositor calls them from its handlers.  Titles, sizes, positions and  *)
(* the fullscreen flag are left out: they decide where on the screen a     *)
(* window is, and what layout decides here is only who is placed.          *)
(* `windows' is a function from live handles; its Vec order is the order   *)
(* of the handles, which are given out in increasing order and never move. *)
(***************************************************************************)
EXTENDS Vec, FiniteSets

CONSTANTS Outputs,  \* the outputs there may ever be
          NoWindow  \* Option::None for a WindowId

ASSUME NoWindowAssumption == NoWindow \notin Nat

Roles == {"toplevel", "dialog", "popup"}

Windows == [role : Roles, parent : Nat \cup {NoWindow}, output : Outputs]

Slots == [order : Seq(Nat), tiled : Seq(Nat), capacity : Nat]

NewSlot == [order |-> << >>, tiled |-> << >>, capacity |-> 1]

EmptyModel == [windows |-> << >>, created |-> << >>, slots |-> << >>,
               focus |-> NoWindow, next_id |-> 0]

----------------------------------------------------------------------------
(* Reading the model                                                       *)

Live(m) == DOMAIN m.windows

IsToplevel(m, w) == m.windows[w].role = "toplevel"

\* slot_mut: an output is created on first use.
SlotMut(m, o) == IF o \in DOMAIN m.slots THEN m.slots[o] ELSE NewSlot

Bar(m, o) == IF o \in DOMAIN m.slots THEN m.slots[o].order ELSE << >>

Tiled(m, o) == IF o \in DOMAIN m.slots THEN m.slots[o].tiled ELSE << >>

WaitingOf(s) == Retain(s.order, Elements(s.order) \ Elements(s.tiled))

Waiting(m, o) == IF o \in DOMAIN m.slots THEN WaitingOf(m.slots[o]) ELSE << >>

\* A window and everything below it in the parent chain.
Family(m, id) ==
  {w \in Live(m) :
     \A S \in SUBSET Live(m) :
       id \in S /\ (\A x \in Live(m) : m.windows[x].parent \in S => x \in S)
         => w \in S}

\* layout: the tiles, then the children of the windows on the tiles.
Placed(m, o) ==
  LET tiles == Elements(Tiled(m, o))
  IN  tiles \cup {w \in Live(m) : /\ o \in DOMAIN m.slots
                                  /\ m.windows[w].output = o
                                  /\ ~IsToplevel(m, w)
                                  /\ m.windows[w].parent \in tiles \cup {NoWindow}}

\* The first tiled window of the first output that has one, outputs in the
\* order they were created.
FirstTiled(m) ==
  LET shows(k) == m.slots[m.created[k]].tiled # << >>
      first    == CHOOSE k \in 1..Len(m.created) :
                    shows(k) /\ \A j \in 1..(k - 1) : ~shows(j)
  IN  IF \E k \in 1..Len(m.created) : shows(k)
      THEN m.slots[m.created[first]].tiled[1]
      ELSE NoWindow

----------------------------------------------------------------------------
(* The methods                                                             *)

\* An output's slot written back; one that was created now is the last.
WithSlot(m, o, s) ==
  [m EXCEPT !.slots = [x \in DOMAIN @ \cup {o} |-> IF x = o THEN s ELSE @[x]],
            !.created = IF o \in DOMAIN m.slots THEN @ ELSE Append(@, o)]

\* Variant: the loop stops one tile short.
FillFreeTiles_Lazy(s) == s

\* fill_free_tiles: the head of the queue moves up while a tile is free.
FillFreeTiles(s) ==
  [s EXCEPT !.tiled = @ \o Take(WaitingOf(s), s.capacity - Len(@))]

\* Variant: shrinking keeps the trailing tiles.
SetCapacity_DropsFirst(m, o, capacity) ==
  LET s     == SlotMut(m, o)
      extra == IF Len(s.tiled) > capacity THEN Len(s.tiled) - capacity ELSE 0
  IN  WithSlot(m, o, FillFreeTiles(
        [s EXCEPT !.capacity = capacity,
                  !.tiled = SubSeq(@, extra + 1, Len(@))]))

SetCapacity(m, o, capacity) ==
  WithSlot(m, o, FillFreeTiles(
    [SlotMut(m, o) EXCEPT !.capacity = capacity, !.tiled = Take(@, capacity)]))

\* A tile for id: a free one, else the focused window's, else the one at
\* the fallback index; none when the output has no room for a tile at all.
TakeTile(s, id, focus, fallback) ==
  IF Len(s.tiled) < s.capacity THEN Append(s.tiled, id)
  ELSE IF s.capacity = 0 THEN s.tiled
  ELSE IF focus \in Elements(s.tiled) THEN Swap(s.tiled, focus, id)
  ELSE [s.tiled EXCEPT ![fallback] = id]

\* Variant: handles are counted by the windows there are.
PushWindow_ReusesHandles(m, w) ==
  [m EXCEPT !.windows = [x \in DOMAIN @ \cup {m.next_id} |->
                           IF x = m.next_id THEN w ELSE @[x]],
            !.next_id = Cardinality(DOMAIN m.windows) + 1]

PushWindow(m, w) ==
  [m EXCEPT !.windows = [x \in DOMAIN @ \cup {m.next_id} |->
                           IF x = m.next_id THEN w ELSE @[x]],
            !.next_id = @ + 1]

OpenToplevel(m, o) ==
  LET id     == m.next_id
      pushed == PushWindow(m, [role |-> "toplevel", parent |-> NoWindow,
                               output |-> o])
      s      == SlotMut(m, o)
  IN  [WithSlot(pushed, o, [s EXCEPT !.order = Append(@, id),
                                     !.tiled = TakeTile(s, id, m.focus, Len(@))])
         EXCEPT !.focus = id]

OpenChild(m, parent, role) ==
  [PushWindow(m, [role |-> role, parent |-> parent,
                  output |-> m.windows[parent].output])
     EXCEPT !.focus = IF role = "dialog" THEN m.next_id ELSE @]

\* Variant: the cycle check is left out.
CanAdopt_NoCycleCheck(m, id, parent) ==
  /\ id # parent /\ parent \in Live(m) /\ id \in Live(m)
  /\ IsToplevel(m, id)

CanAdopt(m, id, parent) ==
  /\ id # parent /\ parent \in Live(m) /\ id \in Live(m)
  /\ IsToplevel(m, id)
  /\ m.windows[id].parent # parent
  /\ parent \notin Family(m, id)

\* Drop windows from every bar and every tile, and fill what that freed.
WithoutWindows(slots, gone) ==
  [o \in DOMAIN slots |->
     FillFreeTiles([slots[o] EXCEPT
       !.order = Retain(@, Elements(@) \ gone),
       !.tiled = Retain(@, Elements(@) \ gone)])]

AdoptAsDialog(m, id, parent) ==
  IF ~CanAdopt(m, id, parent) THEN m
  ELSE [m EXCEPT !.windows[id].role = "dialog",
                 !.windows[id].parent = parent,
                 !.windows[id].output = m.windows[parent].output,
                 !.slots = WithoutWindows(@, {id}),
                 !.focus = id]

\* Variant: focus is left where it was.
Close_KeepsFocus(m, id) ==
  [m EXCEPT !.windows = [w \in DOMAIN @ \ Family(m, id) |-> @[w]],
            !.slots = WithoutWindows(@, Family(m, id))]

\* Variant: focus goes nowhere.
Close_DropsFocus(m, id) ==
  [m EXCEPT !.windows = [w \in DOMAIN @ \ Family(m, id) |-> @[w]],
            !.slots = WithoutWindows(@, Family(m, id)),
            !.focus = IF @ \in Family(m, id) THEN NoWindow ELSE @]

Close(m, id) ==
  LET doomed == Family(m, id)
      left   == [m EXCEPT !.windows = [w \in DOMAIN @ \ doomed |-> @[w]],
                          !.slots = WithoutWindows(@, doomed)]
  IN  [left EXCEPT !.focus = IF @ \in doomed THEN FirstTiled(left) ELSE @]

\* Variant: the window taken off its tile goes to the end of the bar.
Activate_Reorders(m, id) ==
  LET o     == m.windows[id].output
      s     == SlotMut(m, o)
      tiled == IF id \in Elements(s.tiled) THEN s.tiled ELSE TakeTile(s, id, m.focus, 1)
      out   == Elements(s.tiled) \ Elements(tiled)
  IN  [IF ~IsToplevel(m, id) THEN m
       ELSE WithSlot(m, o, [s EXCEPT !.tiled = tiled,
              !.order = Retain(@, Elements(@) \ out) \o Retain(@, out)])
         EXCEPT !.focus = id]

\* Variant: the waiting window and its neighbour both come up.
Activate_RefillsAll(m, id) ==
  LET o == m.windows[id].output
      s == SlotMut(m, o)
  IN  [IF ~IsToplevel(m, id) THEN m
       ELSE WithSlot(m, o, FillFreeTiles([s EXCEPT !.tiled =
              IF id \in Elements(@) THEN @ ELSE Take(<<id>>, s.capacity)]))
         EXCEPT !.focus = id]

Activate(m, id) ==
  LET o == m.windows[id].output
      s == SlotMut(m, o)
  IN  [IF ~IsToplevel(m, id) THEN m
       ELSE WithSlot(m, o, [s EXCEPT !.tiled =
              IF id \in Elements(@) THEN @ ELSE TakeTile(s, id, m.focus, 1)])
         EXCEPT !.focus = id]

Focus(m, id) == [m EXCEPT !.focus = id]

\* The neighbour of the focused window on the bar, wrapping around; the
\* first or the last one when focus is not on the bar.
CycleTarget(bar, focus, forward) ==
  LET at == Position(bar, focus)
  IN  IF focus \in Elements(bar)
      THEN IF forward THEN bar[(at % Len(bar)) + 1]
           ELSE bar[((at + Len(bar) - 2) % Len(bar)) + 1]
      ELSE IF forward THEN bar[1] ELSE bar[Len(bar)]

CycleFocus(m, o, forward) ==
  IF Bar(m, o) = << >> THEN m
  ELSE Activate(m, CycleTarget(Bar(m, o), m.focus, forward))

\* Variant: the windows are moved but still name the output that went away.
Migrate_StaleOutputs(m, from, to) ==
  IF from = to \/ from \notin DOMAIN m.slots THEN m
  ELSE LET emptied == WithSlot(m, from, [m.slots[from] EXCEPT !.order = << >>,
                                                              !.tiled = << >>])
           s       == SlotMut(emptied, to)
       IN  WithSlot(emptied, to, FillFreeTiles(
             [s EXCEPT !.order = @ \o m.slots[from].order]))

Migrate(m, from, to) ==
  IF from = to \/ from \notin DOMAIN m.slots THEN m
  ELSE LET moved   == [m EXCEPT !.windows = [w \in DOMAIN @ |->
                         IF @[w].output = from THEN [@[w] EXCEPT !.output = to] ELSE @[w]]]
           emptied == WithSlot(moved, from, [m.slots[from] EXCEPT !.order = << >>,
                                                                  !.tiled = << >>])
           s       == SlotMut(emptied, to)
       IN  WithSlot(emptied, to, FillFreeTiles(
             [s EXCEPT !.order = @ \o m.slots[from].order]))

----------------------------------------------------------------------------
(* What a good model is, in parts                                          *)

ModelTypeOK(m) ==
  /\ Live(m) \subseteq Nat
  /\ DOMAIN m.slots \subseteq Outputs
  /\ m \in [windows : [Live(m) -> Windows], created : Seq(Outputs),
            slots : [DOMAIN m.slots -> Slots],
            focus : Nat \cup {NoWindow}, next_id : Nat]
  /\ Elements(m.created) = DOMAIN m.slots

\* A tile is held by a window of that output's bar, by one window at a time,
\* and there are never more tiles than the geometry allows.
TilesOK(s) ==
  /\ NoDuplicates(s.order) /\ NoDuplicates(s.tiled)
  /\ Elements(s.tiled) \subseteq Elements(s.order)
  /\ Len(s.tiled) <= s.capacity

\* No free tile while a window waits.
NoHole(s) == Len(s.tiled) < s.capacity => Elements(s.order) \subseteq Elements(s.tiled)

SlotsOK(m) == \A o \in DOMAIN m.slots : TilesOK(m.slots[o]) /\ NoHole(m.slots[o])

BarsOK(m) ==
  /\ \A o \in DOMAIN m.slots :
       Elements(m.slots[o].order) =
         {w \in Live(m) : IsToplevel(m, w) /\ m.windows[w].output = o}
  /\ \A w \in Live(m) : IsToplevel(m, w) => m.windows[w].output \in DOMAIN m.slots

FamiliesOK(m) ==
  \A w \in Live(m) :
    /\ IsToplevel(m, w) <=> m.windows[w].parent = NoWindow
    /\ ~IsToplevel(m, w) => /\ m.windows[w].parent \in Live(m)
                            /\ m.windows[w].parent \notin Family(m, w)

HandlesOK(m) ==
  /\ \A w \in Live(m) : w < m.next_id
  /\ m.focus \in Live(m) \cup {NoWindow}
=============================================================================
