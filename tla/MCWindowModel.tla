---------------------------- MODULE MCWindowModel ----------------------------
(***************************************************************************)
(* WindowModel for TLC: no output is special, and the model names them     *)
(* only in its state, so two that swap roles are one state.                *)
(***************************************************************************)
EXTENDS WindowModel, TLC

OutputSymmetry == Permutations(Outputs)
=============================================================================
