---------------------------- MODULE MCPdxBreakpoints --------------------------
(* A program that calls a recursive routine, which calls another one.      *)
EXTENDS PdxBreakpoints

CONSTANTS M, P, Q

MCFunc == {M, P, Q}
MCCalls == {<<M, P>>, <<P, P>>, <<P, Q>>}
MCWhere == {P, Q}
MCConditional == {"ALL_ON"}
MCDeletable == {"STOP_BP"}
===============================================================================
