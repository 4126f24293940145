------------------------------- MODULE PcReruns -------------------------------
(***************************************************************************)
(* Programs run one after the other by pdx, which calls px_main for every  *)
(* run in the same process.  px_interpreter takes memory for a new stack   *)
(* and clears _actfile; _fchain and _filefre stay as the last run left     *)
(* them, and a run that stopped in an error left its files on the chain.   *)
(***************************************************************************)
EXTENDS PcFiles

\* Any other runtime error or signal: px_exit leaves px_main without PCLOSE.
Abort == /\ status = "running"
         /\ status' = "aborted"
         /\ UNCHANGED <<run, depth, heap, iorec, lists, disk>>

\* Bound: only runs that left no dynamic record are followed by another one.
Rerun == /\ ~Compiled
         /\ status # "running"
         /\ run < Len(Stack)
         /\ heap = {}
         /\ run' = run + 1
         /\ depth' = 1
         /\ actfile' = [s \in Slot |-> FILNIL]
         /\ status' = "running"
         /\ UNCHANGED <<heap, iorec, fchain, filefre, disk>>

RerunSpec == Init /\ [][Next \/ Abort \/ Rerun]_vars
-----------------------------------------------------------------------------
\* An opened file stays active until its own block ends or its own record is
\* disposed of: no other close makes UNIT report it inactive.
StaysActive ==
    [][status' = "running" /\ run' = run =>
         \A f \in Active : \/ IsActive(f)'
                           \/ f \in Accessible /\ ~(f \in Accessible')]_vars
=============================================================================
