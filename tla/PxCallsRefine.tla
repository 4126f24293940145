---------------------------- MODULE PxCallsRefine ----------------------------
(***************************************************************************)
(* The display implements environments: PxCalls refines PxActivations.     *)
(* The environment of a suspended activation is nowhere in the interpreter *)
(* as such; it is what the display becomes once the younger frames have    *)
(* given back what they replaced.                                          *)
(***************************************************************************)
EXTENDS PxCalls

\* The display the activation of frame i has, or will get back when the frames
\* above it, those not yet left by a goto under way, are gone.
DisplayAt[i \in 1..display[dp]] ==
    IF i = display[dp] THEN display
    ELSE LET f == stack[i + 1] IN GiveBack(f, Level(f.rtn), DisplayAt[i + 1])

\* A goto under way has already ended the activations above its target.
Live == CASE mode = "run" -> Len(stack)
          [] mode = "goto" -> target
          [] OTHER -> 0

Activation(i) ==
    [rtn |-> stack[i].rtn,
     env |-> SubSeq(DisplayAt[i], 1, Level(stack[i].rtn)),
     formal |-> [rtn |-> stack[i].formal.rtn, env |-> stack[i].formal.fdisp],
     file |-> stack[i].file]

Abs == INSTANCE PxActivations WITH
         acts <- [i \in 1..Live |-> Activation(i)],
         open <- { f \in open : f <= Live },
         cur <- IF mode = "goto" /\ target < Len(stack)
                THEN stack[target + 1].file ELSE curfile

\* Every block runs in the environment Pascal gives it, whatever was called,
\* passed as a parameter, returned from or jumped out of before.
ImplementsActivations == Abs!ASpec
=============================================================================
