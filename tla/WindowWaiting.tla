---------------------------- MODULE WindowWaiting ----------------------------
(***************************************************************************)
(* Who gets a tile that comes free.  fill_free_tiles takes the first       *)
(* window on the bar that has no tile (window.rs:119-137): the bar is in   *)
(* order of opening and never reordered, while a window that is sent back  *)
(* to it starts to wait anew.  The code has no record of how long a window *)
(* waits; `longer' is one, added to WindowModel.                           *)
(***************************************************************************)
EXTENDS WindowModel

VARIABLE longer  \* history: <<v, w>> when v waits for a tile since before w does

waitingVars == <<vars, longer>>

----------------------------------------------------------------------------

AllWaiting(m) == UNION {Elements(Waiting(m, o)) : o \in DOMAIN m.slots}

\* Those that went on waiting wait longer than those that began to.
Waited ==
  LET still == AllWaiting(model) \cap AllWaiting(model')
      begun == AllWaiting(model') \ AllWaiting(model)
  IN  longer' = (longer \cap (still \X still)) \cup (still \X begun)

WaitingInit == Init /\ longer = {}

WaitingSpec == WaitingInit /\ [][Next /\ Waited]_waitingVars

----------------------------------------------------------------------------

\* A tile came free on an output: its window left the bar, or there is room
\* for more.
Freed(old, new) ==
  \/ ~(Elements(old.tiled) \subseteq Elements(new.order))
  \/ new.capacity > old.capacity

\* Whichever way a tile comes free, nobody is overtaken who stands first on the
\* bar and has waited at least as long: where window.rs:127 "oldest first" and
\* window.rs:336 "longest-waiting" name the same window, it is served.
NobodyIsOvertaken ==
  [][\A o \in DOMAIN model.slots :
       LET old == model.slots[o]
           new == model'.slots[o]
       IN  Freed(old, new) => \A v, w \in Elements(old.order) \cap Elements(new.order) :
             /\ Position(old.order, v) < Position(old.order, w)
             /\ <<w, v>> \notin longer
             /\ w \in Elements(new.tiled) \ Elements(old.tiled)
             /\ v \notin Elements(old.tiled)
             => v \in Elements(new.tiled)]_waitingVars

\* "A tiled window's tile is filled by the longest-waiting window"
\* (window.rs:336; 13, 161-162 and 302-303 say the same): a window that has
\* waited longer than the one that gets the tile gets one too.
LongestWaitingFirst ==
  [][\A o \in DOMAIN model.slots :
       LET old == model.slots[o]
           new == model'.slots[o]
       IN  Freed(old, new) => \A v, w \in Elements(old.order) \cap Elements(new.order) :
             /\ <<v, w>> \in longer
             /\ w \in Elements(new.tiled) \ Elements(old.tiled)
             => v \in Elements(new.tiled)]_waitingVars
=============================================================================
