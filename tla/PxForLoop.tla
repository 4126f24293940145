----------------------------- MODULE PxForLoop -----------------------------
(***************************************************************************)
(* The for statement as pi compiles it for px (src/src/forop.c) and px     *)
(* runs it (src/px/interp.c, cases O_FOR1U to O_FOR4D).                    *)
(*                                                                         *)
(* The body is not duplicated: a shadow of the control variable, as wide   *)
(* as its type, is compared with the final value, which is a long, behind  *)
(* the body and is stepped when they differ.  The control variable itself  *)
(* is set at the top of the loop; the body reads the shadow, since forop   *)
(* puts it in the place of the variable in the symbol table, but routines  *)
(* that the body calls read and may write the variable.                    *)
(***************************************************************************)
EXTENDS Integers

CONSTANT Widths     \* half the range of each width of an ordinal: 2^7, 2^15, 2^31
CONSTANT Long       \* that of the longs

ASSUME WidthAssumption == /\ Widths \subseteq Nat \ {0}
                          /\ Long \in Widths
                          /\ \A h \in Widths : h <= Long

\* The values of h's width, and what a number becomes when it is stored there.
Stored(h) == -h..h - 1
Wrap(x, h) == ((x + h) % (2 * h)) - h

\* A type has the least width that holds its values (bytes).
Loop == { t \in [lo : Stored(Long), hi : Stored(Long), half : Widths,
                 up : BOOLEAN, tests : BOOLEAN] :
            /\ t.lo <= t.hi
            /\ t.lo \in Stored(t.half) /\ t.hi \in Stored(t.half)
            /\ \A h \in Widths : h < t.half => ~(t.lo \in Stored(h) /\ t.hi \in Stored(h)) }

VARIABLES
    loop,       \* the for statement: its type, direction and the option t
    at,         \* what runs next
    temp1,      \* the initial value, a long
    temp2,      \* the final value, a long
    shadow,     \* the shadow of the control variable
    var         \* the control variable

forvars == <<loop, at, temp1, temp2, shadow, var>>

ForInit == /\ loop \in Loop
           /\ at = "initial"
           /\ temp1 = 0 /\ temp2 = 0
           /\ shadow = 0 /\ var = 0

InOrder == IF loop.up THEN temp1 <= temp2 ELSE temp1 >= temp2

\* The first expression is evaluated, and then the second.
EvalInitial(e) == /\ at = "initial"
                  /\ temp1' = e
                  /\ at' = "final"
                  /\ UNCHANGED <<loop, temp2, shadow, var>>

EvalFinal(e) == /\ at = "final"
                /\ temp2' = e
                /\ at' = "if"
                /\ UNCHANGED <<loop, temp1, shadow, var>>

\* O_IF: the whole loop is skipped unless the values are in order.
Skip == /\ at = "if"
        /\ ~InOrder
        /\ at' = "behind"
        /\ UNCHANGED <<loop, temp1, temp2, shadow, var>>

Go == /\ at = "if"
      /\ InOrder
      /\ at' = IF loop.tests THEN "check" ELSE "enter"
      /\ UNCHANGED <<loop, temp1, temp2, shadow, var>>

\* A long goes into the shadow, through O_RANG42 and its kin when tests are on.
Store(x, next) == IF loop.tests /\ x \notin loop.lo..loop.hi
                  THEN at' = "error" /\ UNCHANGED shadow
                  ELSE at' = next /\ shadow' = Wrap(x, loop.half)

CheckFinal == /\ at = "check"
              /\ Store(temp2, "enter")
              /\ UNCHANGED <<loop, temp1, temp2, var>>

StoreInitial == /\ at = "enter"
                /\ Store(temp1, "top")
                /\ UNCHANGED <<loop, temp1, temp2, var>>

Top == /\ at = "top"
       /\ var' = shadow
       /\ at' = "body"
       /\ UNCHANGED <<loop, temp1, temp2, shadow>>

\* A routine called from the body assigns to the control variable.
Threaten(x) == /\ at = "body"
               /\ var' = x
               /\ UNCHANGED <<loop, at, temp1, temp2, shadow>>

BodyEnds == /\ at = "body"
            /\ at' = "for"
            /\ UNCHANGED <<loop, temp1, temp2, shadow, var>>

GotoOut == /\ at = "body"
           /\ at' = "left"
           /\ UNCHANGED <<loop, temp1, temp2, shadow, var>>

Step == IF loop.up THEN 1 ELSE -1

\* Faulty: the variable is stepped before it is compared.
ForStepsFirst == /\ at = "for"
                 /\ shadow' = Wrap(shadow + Step, loop.half)
                 /\ at' = IF (IF loop.up THEN shadow' <= temp2 ELSE shadow' >= temp2)
                          THEN "top" ELSE "behind"
                 /\ UNCHANGED <<loop, temp1, temp2, var>>

\* Faulty: the control variable is not shadowed.
ForUnshadowed == /\ at = "for"
                 /\ IF var = temp2
                    THEN at' = "behind" /\ UNCHANGED shadow
                    ELSE at' = "top" /\ shadow' = Wrap(var + Step, loop.half)
                 /\ UNCHANGED <<loop, temp1, temp2, var>>

\* O_FOR1U to O_FOR4D.
For == /\ at = "for"
       /\ IF shadow = temp2
          THEN at' = "behind" /\ UNCHANGED shadow
          ELSE at' = "top" /\ shadow' = Wrap(shadow + Step, loop.half)
       /\ UNCHANGED <<loop, temp1, temp2, var>>

Run == Skip \/ Go \/ CheckFinal \/ StoreInitial \/ Top \/ BodyEnds \/ For

ForNext == \/ Run \/ GotoOut
           \/ \E e \in Stored(Long) : EvalInitial(e) \/ EvalFinal(e)
           \/ \E x \in loop.lo..loop.hi : Threaten(x)

ForSpec == ForInit /\ [][ForNext]_forvars

\* px does not stop between instructions, and every run of the body ends.
FairForSpec == ForSpec /\ WF_forvars(Run)

-----------------------------------------------------------------------------
\* The loop ends, even at the ends of the type and with a wild initial value,
\* whenever the width of the control variable can hold the final value
\* (interp.c:1582 tests for equality before it steps).
LoopEnds == (at = "if" /\ temp2 \in Stored(loop.half)) ~> at \in {"behind", "left", "error"}
=============================================================================
