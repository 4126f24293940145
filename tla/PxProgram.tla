------------------------------ MODULE PxProgram ------------------------------
(***************************************************************************)
(* A Pascal program as px sees it: nested blocks, some of which take a     *)
(* procedural parameter, declare a file variable or declare a label.  The  *)
(* compiler (src/src) gives every block the static level cbn at which its  *)
(* frames are entered in the display, and rejects a name out of scope.     *)
(***************************************************************************)
EXTENDS Integers, Sequences

CONSTANTS
    Routine,       \* the blocks of the program
    Main,          \* the program block
    Nest,          \* Nest[r]: the blocks enclosing r, from Main down to r
    TakesFormal,   \* the routines with a procedural parameter
    HasFile,       \* the blocks that declare a file variable
    HasLabel,      \* the blocks that declare a label
    MaxDepth       \* bound: activations that exist at the same time

Level(r) == Len(Nest[r])

ASSUME ProgramAssumption ==
    /\ Main \in Routine
    /\ MaxDepth \in Nat \ {0}
    /\ Nest \in [Routine -> Seq(Routine)]
    /\ \A r \in Routine :
         /\ Level(r) >= 1
         /\ Nest[r][1] = Main
         /\ Nest[r][Level(r)] = r
         /\ \A l \in 1..Level(r) :
              /\ Level(Nest[r][l]) = l
              /\ \A k \in 1..l : Nest[Nest[r][l]][k] = Nest[r][k]
    /\ \A r \in Routine : Level(r) = 1 => r = Main
    /\ TakesFormal \subseteq Routine \ {Main}
    /\ HasFile \subseteq Routine
    /\ HasLabel \subseteq Routine

\* Block r may name routine q: q is declared in r or in a block around r.
Visible(q, r) == /\ q # Main
                 /\ Level(q) - 1 <= Level(r)
                 /\ Nest[q][Level(q) - 1] = Nest[r][Level(q) - 1]

\* Bound: only routines without procedural parameters are passed on.
Passable == Routine \ (TakesFormal \cup {Main})
=============================================================================
