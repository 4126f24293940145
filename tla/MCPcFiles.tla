------------------------------ MODULE MCPcFiles ------------------------------
(***************************************************************************)
(* Memory layouts for PcFiles.  Addresses are small integers.  A compiled  *)
(* program has its own files in static memory, dynamic records above it    *)
(* and the stack above both.  px takes the memory for its stack from the   *)
(* heap, as NEW does for records, so that the C stack lies either above    *)
(* both or below both.                                                     *)
(***************************************************************************)
EXTENDS PcFilesRefine, PcReruns

\* One record, with two files in it.
Records == { {11, 12} }
NoRecords == {}

StaticFile == {3}
NoStatics == {}

\* Three frames with one file variable each, below a given address.
FramesBelow(top) == [d \in 1..3 |-> [files |-> {top - 2 * d}, locvars |-> top - 2 * d + 1]]
OneStack == <<FramesBelow(40)>>
TwoStacks == <<FramesBelow(40), FramesBelow(60)>>

ASSUME CompiledAssumption == Compiled => StackAboveGlobals
=============================================================================
