---------------------------- MODULE PxForRefine ----------------------------
(***************************************************************************)
(* The for loop of px implements the for statement of Pascal.  Without     *)
(* runtime tests nothing is promised of a loop that is entered with values *)
(* outside the type.                                                       *)
(***************************************************************************)
EXTENDS PxForLoop

Entered == at \in {"top", "body", "for", "left"} \/ (at = "behind" /\ InOrder)
Compatible == temp1 \in loop.lo..loop.hi /\ temp2 \in loop.lo..loop.hi
Running == at \in {"top", "body", "for"} /\ (loop.tests \/ Compatible)

Standard == INSTANCE PxForStatement
    WITH Value <- Stored(Long),
         v <- IF Running THEN shadow ELSE 0,
         last <- IF Running THEN temp2 ELSE 0,
         where <- IF Entered /\ ~loop.tests /\ ~Compatible THEN "undefined"
                  ELSE IF Running THEN "body"
                  ELSE IF at \in {"behind", "left", "error"} THEN at
                  ELSE "before"

\* The body runs once for each value from the initial to the final one, in
\* order, whatever the routines it calls do to the control variable and the
\* variables of the two expressions (forop.c:66-79).
ImplementsForStatement == Standard!Spec
=============================================================================
