----------------------------- MODULE MCPdxProcess -----------------------------
(***************************************************************************)
(* A program of four instructions in two words: the second branches, the   *)
(* third calls halt or not, by the configuration, and one may fail.  It is *)
(* loaded at one of two places, whose words share the lines of the cache.  *)
(***************************************************************************)
EXTENDS PdxProcess

CONSTANTS b1, b2

MCSucc == <<{2}, {3, 4}, {4}>>
MCHalts == {3}
MCErrs == {2}
MCcachehash == [bw \in Base \X {1, 2} |-> IF bw = <<b1, 1>> THEN "x" ELSE "y"]
===============================================================================
