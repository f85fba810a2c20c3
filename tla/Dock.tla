-------------------------------- MODULE Dock --------------------------------
(***************************************************************************)
(* The outputs of a session: gostui-core/src/output.rs.  A phone's panel   *)
(* and a monitor come and go, each with a mode, a scale and a rotation,    *)
(* and whoever asks gets the size to lay out in.                           *)
(*                                                                         *)
(* The compositor adds one output and changes its mode; removing and       *)
(* inserting built ones are calls the crate offers, in any order here.     *)
(* What happens to the windows of an output that goes away is Migrate, in  *)
(* WindowModel.                                                            *)
(***************************************************************************)
EXTENDS ShellOps, Vec

CONSTANTS Modes,     \* framebuffer sizes a backend may report
          Scales,    \* scales, of a broken backend too
          Positions, \* where an output may be put
          Bars,      \* the theme's bar heights
          MaxId, MaxOutputs \* bounds of the model

ASSUME BoundsAssumption == MaxId \in Nat /\ MaxOutputs \in Nat

\* Whatever a backend reports are two i32 and a scale that is one.
ASSUME ReportsAssumption == Modes \subseteq [w : Int, h : Int] /\ Scales \subseteq Int

VARIABLES
  outputs, \* Outputs.outputs, in the order they came
  next_id, \* Outputs.next_id
  given    \* every handle there has ever been

dockVars == <<outputs, next_id, given>>

----------------------------------------------------------------------------
(* One output                                                              *)

Transforms == {"normal", "90", "180", "270",
               "flipped", "flipped90", "flipped180", "flipped270"}

SwapsAxes(t) == t \in {"90", "270", "flipped90", "flipped270"}

NewOutput(id, mode) ==
  [id |-> id, mode_px |-> mode, scale |-> 1, transform |-> "normal", position |-> Point(0, 0)]

\* Variant: a scale is taken as it is reported.
WithScale_Reported(o, scale) == [o EXCEPT !.scale = scale]

WithScale(o, scale) == [o EXCEPT !.scale = Most(scale, 1)]

WithTransform(o, t) == [o EXCEPT !.transform = t]

At(o, p) == [o EXCEPT !.position = p]

Rotated(o) == IF SwapsAxes(o.transform) THEN Size(o.mode_px.h, o.mode_px.w) ELSE o.mode_px

\* Variant: scaled first, rotated never.
LogicalSize_Unrotated(o) ==
  Size(Most(Quot(o.mode_px.w, o.scale), 1), Most(Quot(o.mode_px.h, o.scale), 1))

LogicalSize(o) ==
  Size(Most(Quot(Rotated(o).w, Most(o.scale, 1)), 1), Most(Quot(Rotated(o).h, Most(o.scale, 1)), 1))

LogicalRect(o) == Rect(o.position.x, o.position.y, LogicalSize(o).w, LogicalSize(o).h)

IsPortrait(o) == LogicalSize(o).h > LogicalSize(o).w

----------------------------------------------------------------------------
(* The collection                                                          *)

Ids(outs) == {outs[i].id : i \in DOMAIN outs}

Fallback == IF outputs = << >> THEN {} ELSE {outputs[1].id}

AddOutput(mode) ==
  /\ next_id < MaxId /\ Len(outputs) < MaxOutputs
  /\ outputs' = Append(outputs, NewOutput(next_id, mode))
  /\ next_id' = next_id + 1
  /\ given' = given \cup {next_id}

\* Variant: a built output's handle is not counted.
NextAfter_Insert(id) == next_id

NextAfter(id) == Most(next_id, id + 1)

\* Variant: an output that is there already goes to the end.
Inserted_AtTheEnd(o) == Append(SelectSeq(outputs, LAMBDA p : p.id # o.id), o)

\* A built output: in the place of the one it replaces, if there is one.
Inserted(o) ==
  IF o.id \in Ids(outputs)
  THEN [i \in DOMAIN outputs |-> IF outputs[i].id = o.id THEN o ELSE outputs[i]]
  ELSE Append(outputs, o)

Insert(o) ==
  /\ o.id \in Ids(outputs) \/ Len(outputs) < MaxOutputs
  /\ outputs' = Inserted(o)
  /\ next_id' = NextAfter(o.id)
  /\ given' = given \cup {o.id}

RemoveOutput(id) ==
  /\ outputs' = Retain(outputs, {o \in Elements(outputs) : o.id # id})
  /\ UNCHANGED <<next_id, given>>

\* get_mut: the backend's window has another size.
SetMode(id, mode) ==
  /\ outputs' = [i \in DOMAIN outputs |->
                   IF outputs[i].id = id THEN [outputs[i] EXCEPT !.mode_px = mode] ELSE outputs[i]]
  /\ UNCHANGED <<next_id, given>>

DockInit == outputs = << >> /\ next_id = 0 /\ given = {}

DockNext == \/ \E mode \in Modes : AddOutput(mode)
            \/ \E id \in 0..(MaxId - 1), mode \in Modes, s \in Scales, t \in Transforms, p \in Positions :
                 Insert(At(WithTransform(WithScale(NewOutput(id, mode), s), t), p))
            \/ \E id \in 0..MaxId : RemoveOutput(id)
            \/ \E id \in Ids(outputs), mode \in Modes : SetMode(id, mode)

DockSpec == DockInit /\ [][DockNext]_dockVars

----------------------------------------------------------------------------
(* Type and safety                                                         *)

\* Every output has a handle of its own, below the next one.
DockTypeOK ==
  /\ next_id \in Nat /\ Ids(outputs) \subseteq given /\ given \subseteq 0..(next_id - 1)
  /\ \A i, j \in DOMAIN outputs : outputs[i].id = outputs[j].id => i = j
  /\ \A i \in DOMAIN outputs : outputs[i].mode_px \in Modes /\ outputs[i].scale \in Nat \ {0}

\* output.rs:14-16 `outputs come and go': whatever was plugged, inserted and
\* removed, a new output never gets a handle a window may still hold.
HandlesAreFresh == [][\A mode \in Modes : AddOutput(mode) => next_id \notin given]_dockVars

\* output.rs:184-187: windows fall back to the same output until it goes away
\* itself; changing its mode, or re-inserting it after a rotation, does not
\* move everybody's windows.
FallbackStays == [][Fallback # {} /\ Fallback \subseteq Ids(outputs') => Fallback' = Fallback]_dockVars

\* output.rs:92-102: what is laid out in logical units and scaled up covers
\* the rotated framebuffer to within one unit, and never more; there is always
\* something to lay out in.
LogicalSizeFitsTheMode ==
  \A i \in DOMAIN outputs :
    LET o  == outputs[i]
        s  == LogicalSize(o)
        px == IF o.transform \in {"90", "270", "flipped90", "flipped270"}
              THEN [w |-> o.mode_px.h, h |-> o.mode_px.w] ELSE o.mode_px
    IN  /\ s.w >= 1 /\ s.h >= 1
        /\ s.w * o.scale <= Most(px.w, o.scale) /\ px.w < (s.w + 1) * o.scale
        /\ s.h * o.scale <= Most(px.h, o.scale) /\ px.h < (s.h + 1) * o.scale

\* The whole collection: sizes that fit, handles nobody had, and a fallback that
\* only its own removal changes.
DockIsSound == [](DockTypeOK /\ LogicalSizeFitsTheMode) /\ HandlesAreFresh /\ FallbackStays

----------------------------------------------------------------------------
(* What the comments say and the code does not keep                        *)

\* output.rs:112-113 `Tiles stack on such an output and sit side by side on a
\* monitor': the area between the bars is cut the way the output is held.
PortraitOutputsStack ==
  \A i \in DOMAIN outputs :
    LET apps == Zones(LogicalRect(outputs[i]), Bars).apps
    IN  TileLimit(apps, Gaps(0, 4)) >= 2 => (IsVertical(apps) <=> IsPortrait(outputs[i]))
=============================================================================
