---------------------------- MODULE PcActiveFiles ----------------------------
(***************************************************************************)
(* What the file part of libpc promises a Pascal program: a file that was  *)
(* opened stays active until its block ends or its record is disposed of,  *)
(* and is closed then, and no other file with it.  Program files belong to *)
(* the block at depth 1, whose end is the end of the program.              *)
(***************************************************************************)
EXTENDS Integers

CONSTANTS
    Block,       \* Block[d]: the file variables of the block at depth d
    Record,      \* the dynamic records; each is the set of its file variables
    MaxDepth

VARIABLES
    depth,       \* the number of active blocks
    heap,        \* the records that are allocated
    active,      \* the files that are active
    halted       \* the program has ended, or stopped in an error

vars == <<depth, heap, active, halted>>

Init == /\ depth = 1
        /\ heap = {}
        /\ active = {}
        /\ halted = FALSE

\* The variables the program can name.
Accessible == (UNION { Block[d] : d \in 1..depth }) \cup UNION heap

Open == /\ UNCHANGED <<depth, heap, halted>>
        /\ \E f \in Accessible : active' = active \cup {f}

Enter == /\ depth < MaxDepth
         /\ depth' = depth + 1
         /\ UNCHANGED <<heap, active, halted>>

Leave == /\ depth > 1
         /\ depth' = depth - 1
         /\ UNCHANGED <<heap, halted>>
         /\ active' = active \ Block[depth]

New(r) == /\ r \notin heap
          /\ heap' = heap \cup {r}
          /\ UNCHANGED <<depth, active, halted>>

Dispose(r) == /\ r \in heap
              /\ heap' = heap \ {r}
              /\ UNCHANGED <<depth, halted>>
              /\ active' = active \ r

\* The program ends, or stops in an error, which may find files half closed.
Halt == /\ halted' = TRUE
        /\ UNCHANGED <<depth, heap>>
        /\ active' \subseteq active \cup Accessible

Next == /\ ~halted
        /\ \/ Halt
           \/ Open
           \/ Enter
           \/ Leave
           \/ \E r \in Record : New(r) \/ Dispose(r)

Spec == Init /\ [][Next]_vars
=============================================================================
