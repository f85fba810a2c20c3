---------------------------- MODULE MCCompositor -----------------------------
(***************************************************************************)
(* Compositor for TLC: surfaces of a kind differ in nothing but when they  *)
(* were created, so they may be permuted.                                  *)
(***************************************************************************)
EXTENDS Compositor, TLC

SurfaceSymmetry == Permutations(Toplevels) \cup Permutations(Popups)
=============================================================================
