------------------------------ MODULE MCExUndo ------------------------------
(***************************************************************************)
(* Buffers of a few lines, for TLC.                                        *)
(***************************************************************************)
EXTENDS ExUndo, TLC

LineSymmetry == Permutations(Line)
=============================================================================
