------------------------------ MODULE MCOutputs ------------------------------
(***************************************************************************)
(* The strip of cards and the collection of outputs for TLC. They share no *)
(* state, so no order of their steps tells anything: each is explored      *)
(* while the other is as it began. The outputs are a monitor, one that is  *)
(* nearly square and one no screen has, at scales a backend may report.    *)
(***************************************************************************)
EXTENDS TabStrip, Dock

Square  == Size(1001, 1050)
Monitor == Size(1920, 1080)
Broken  == Size(0, 3)

AnyModes   == {Square, Monitor, Broken}
AnyScales  == {-1, 2, 3}
Origin     == {Point(0, 0)}
BarHeights == [top |-> 48, bottom |-> 48]

OutputsInit == Init /\ DockInit

OutputsNext == \/ DockInit /\ Next /\ UNCHANGED dockVars
               \/ Init /\ DockNext /\ UNCHANGED vars

OutputsSpec == OutputsInit /\ [][OutputsNext]_<<vars, dockVars>>
=============================================================================
