----------------------------- MODULE MCPiLabels -----------------------------
(***************************************************************************)
(* Blocks with two labels, for TLC.                                        *)
(***************************************************************************)
EXTENDS PiLabels, TLC

LabelSymmetry == Permutations(Label)
=============================================================================
