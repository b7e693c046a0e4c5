------------------------------- MODULE MCUndo -------------------------------
(* Small instances of Undo for TLC. *)
EXTENDS Undo, TLC

MCSymmetry == Permutations(Series)
=============================================================================
