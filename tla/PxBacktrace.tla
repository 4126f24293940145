------------------------------ MODULE PxBacktrace ------------------------------
(***************************************************************************)
(* The control flow backtrace that px prints when a program halts, fails   *)
(* or is interrupted (px_backtrace in src/px/utilities.c).  It follows the *)
(* block marks from `_dp' to the program block, undoing in the display     *)
(* what O_BEG did on entry, and puts the display back at the end.          *)
(***************************************************************************)
EXTENDS PxCalls

\* The walk stands at mydp, with the display it has undone so far.
Here == [mydp |-> dp, disp |-> display]

\* No block mark: mydp->stp was never set.
Lost(w) == w.disp[w.mydp] = 0

\* Faulty: the display entry of the frame is not undone.
CallerSameDisplay(w) == [mydp |-> stack[w.disp[w.mydp]].dp, disp |-> w.disp]

\* One iteration of the loop.
Caller(w) == LET ap == stack[w.disp[w.mydp]]
             IN  [mydp |-> ap.dp, disp |-> [w.disp EXCEPT ![w.mydp] = ap.odisp]]

\* Bound: a walk that prints more frames than there are is cut off one later.
Walk[n \in 1..MaxDepth + 1] ==
    IF n = 1 THEN <<Here>>
    ELSE LET ws == Walk[n - 1]
             w == ws[Len(ws)]
         IN  IF w.mydp = 1 \/ Lost(w) \/ Len(ws) < n - 1
             THEN ws
             ELSE Append(ws, Caller(w))

\* The frames of the blocks that are printed, in their order.
Backtrace == LET ws == Walk[MaxDepth + 1]
             IN  [n \in 1..Len(ws) |-> ws[n].disp[ws[n].mydp]]

-----------------------------------------------------------------------------
\* Between statements, a backtrace names every active block, each once, from
\* the running one to the program block ("Called by", utilities.c:149).
BacktraceListsCallers ==
    mode = "run" => Backtrace = [n \in 1..Len(stack) |-> Len(stack) + 1 - n]

\* The same, as long as no active routine was called as a formal: neither
\* recursion nor gotos between plain calls mislead the walk.
BacktraceOutsideFormals ==
    (\A i \in 1..Len(stack) : stack[i].saved = <<>>) => BacktraceListsCallers
=============================================================================
