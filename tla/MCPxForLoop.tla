---------------------------- MODULE MCPxForLoop ----------------------------
(***************************************************************************)
(* Every for statement over subranges of two widths, for TLC.              *)
(***************************************************************************)
EXTENDS PxForRefine
=============================================================================
