--------------------------- MODULE PxForStatement ---------------------------
(***************************************************************************)
(* The for statement of Pascal, as the standard explains it (6.8.3.9,      *)
(* quoted at src/src/forop.c:52): both expressions are evaluated once, and *)
(* while the statement runs the control variable takes their values and    *)
(* those between them, each once and in order.                             *)
(***************************************************************************)
EXTENDS Integers

CONSTANTS Loop,     \* the for statements: records with `up', `tests', `lo', `hi'
          Value     \* the integers of the machine

VARIABLES loop,     \* the statement
          where,    \* before it, in its body, behind it, left by a goto,
                    \* stopped by an error, or nothing is promised any more
          v, last   \* the control variable and the final value, 0 outside

vars == <<loop, where, v, last>>

InOrder(a, b) == IF loop.up THEN a <= b ELSE a >= b
InType(a) == a \in loop.lo..loop.hi
succ(a) == IF loop.up THEN a + 1 ELSE a - 1

Init == /\ loop \in Loop
        /\ where = "before"
        /\ v = 0
        /\ last = 0

Leave(how) == /\ where' = how
              /\ v' = 0
              /\ last' = 0
              /\ UNCHANGED loop

Skip == where = "before" /\ Leave("behind")

\* Both values must be assignment-compatible with the control variable; without
\* runtime tests the program is on its own when they are not.
Enter(a, b) == /\ where = "before"
               /\ InOrder(a, b)
               /\ \/ /\ InType(a)
                     /\ InType(b)
                     /\ where' = "body"
                     /\ v' = a
                     /\ last' = b
                     /\ UNCHANGED loop
                  \/ /\ ~InType(a) \/ ~InType(b)
                     /\ Leave(IF loop.tests THEN "error" ELSE "undefined")

NextValue == /\ where = "body"
             /\ v # last
             /\ v' = succ(v)
             /\ UNCHANGED <<loop, where, last>>

Finish == where = "body" /\ v = last /\ Leave("behind")

GotoOut == where = "body" /\ Leave("left")

Next == \/ Skip \/ NextValue \/ Finish \/ GotoOut
        \/ \E a \in Value, b \in Value : Enter(a, b)

Spec == Init /\ [][Next]_vars
=============================================================================
