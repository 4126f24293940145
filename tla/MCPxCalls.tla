------------------------------ MODULE MCPxCalls ------------------------------
(***************************************************************************)
(* Two programs for PxCalls.  The first one is deep:                       *)
(*   program M; procedure P(procedure F); ... procedure A; label 1; ...    *)
(*     procedure Q; label 2; ...  procedure R; ...                         *)
(* with A and P in M, Q in A and R in Q.  In the second one R is in P, so  *)
(* that it can call the F of the block around it.                          *)
(***************************************************************************)
EXTENDS PxCallsRefine, PxBacktrace

CONSTANTS A, P, Q, R

MCRoutine == {Main, A, P, Q, R}

DeepNest == [r \in MCRoutine |-> CASE r = Main -> <<Main>>
                                   [] r = A -> <<Main, A>>
                                   [] r = P -> <<Main, P>>
                                   [] r = Q -> <<Main, A, Q>>
                                   [] r = R -> <<Main, A, Q, R>>]

WideNest == [DeepNest EXCEPT ![R] = <<Main, P, R>>]

AllTests == [r \in MCRoutine |-> TRUE]
=============================================================================
