----------------------------- MODULE PcFilesRefine -----------------------------
(***************************************************************************)
(* The file routines of libpc implement PcActiveFiles: the active files    *)
(* are those whose slot of _actfile points back to them.  (One run of the    *)
(* program; a second one in the same process does not keep the promise.)   *)
(***************************************************************************)
EXTENDS PcFiles

Promise == INSTANCE PcActiveFiles
    WITH Block <- [d \in 1..MaxDepth |-> BlockFiles(1, d)],
         active <- Active,
         halted <- status # "running"

\* The layout the level rule of GETNAME counts on: the stack above the C stack,
\* all global files below it, and records that do not overlap.
StackAboveGlobals ==
    /\ \A f \in StackFiles : CFrame <= f
    /\ \A f \in Statics \cup UNION Record : f < CFrame
    /\ \A d \in 2..MaxDepth : LocVars(1, d) < GLVL
    /\ \A r \in Record, f \in Files : Lowest(r) <= f /\ f <= Highest(r) => f \in r
    /\ \A r \in Record : r \cap Statics = {} /\ \A q \in Record \ {r} : r \cap q = {}

\* Every open, close, call, return, allocation and disposal does to the set of
\* active files what the Pascal program expects of it.
ImplementsActiveFiles == Promise!Spec
=============================================================================
